---- MODULE Spec2Model ----
(***************************************************************************)
(* The paging core of lambdaOS (src/arch/x86_64/memory): the Mapper over   *)
(* the recursively mapped 4-level page table, the MapperFlush tokens, the  *)
(* ActivePageTable / InactivePageTable protocol (with, switch), the        *)
(* StackAllocator and the paging bootstrap.                                *)
(*                                                                         *)
(* A usize is 64 bits wide and TLC's integers are 32 bits wide, so a usize *)
(* is a tuple of eight bytes, least significant first, and its arithmetic  *)
(* is done on the bytes.  Table indices (0..511) are plain integers.       *)
(***************************************************************************)
EXTENDS Integers, Sequences, FiniteSets, TLC

(***************************************************************************)
(* usize arithmetic                                                        *)
(***************************************************************************)
\* 0xaaaa_bbbb_cccc_dddd, as a hexadecimal literal of the source is grouped
W16(a, b, c, d) ==
    << d % 256, d \div 256, c % 256, c \div 256,
       b % 256, b \div 256, a % 256, a \div 256 >>

\* a small non-negative integer as a usize
U(n) == W16(0, 0, n \div 65536, n % 65536)

\* a usize below 2^31 as an integer
Int32(w) == w[1] + 256 * w[2] + 65536 * w[3] + 16777216 * w[4]

RECURSIVE AddCarry(_, _, _, _)
AddCarry(a, b, i, carry) ==
    IF i > 8 THEN << >>
    ELSE LET s == a[i] + b[i] + carry
         IN  << s % 256 >> \o AddCarry(a, b, i + 1, s \div 256)

\* a + b, wrapping at 2^64
Add(a, b) == AddCarry(a, b, 1, 0)

RECURSIVE MulCarry(_, _, _, _)
MulCarry(a, m, i, carry) ==
    IF i > 8 THEN << >>
    ELSE LET s == a[i] * m + carry
         IN  << s % 256 >> \o MulCarry(a, m, i + 1, s \div 256)

\* a * m for an integer m < 2^22, wrapping at 2^64
Mul(a, m) == MulCarry(a, m, 1, 0)

\* long division of the bytes i..8 of a by d: [q, r], the quotient's bytes
\* (least significant first) and the remainder
RECURSIVE DivFrom(_, _, _)
DivFrom(a, d, i) ==
    IF i > 8 THEN [q |-> << >>, r |-> 0]
    ELSE LET hi == DivFrom(a, d, i + 1)
             cur == hi.r * 256 + a[i]
         IN  [q |-> << cur \div d >> \o hi.q, r |-> cur % d]

\* a / d and a % d (an integer) for an integer 0 < d < 2^22
Div(a, d) == DivFrom(a, d, 1).q
Mod(a, d) == DivFrom(a, d, 1).r

\* 2^k for k in 0..8
Pow2(k) == << 1, 2, 4, 8, 16, 32, 64, 128, 256 >>[k + 1]

\* a >> k
Shr(a, k) ==
    LET q == k \div 8
        r == k % 8
        byte(i) == IF i <= 8 THEN a[i] ELSE 0
    IN  [i \in 1..8 |->
            (byte(i + q) \div Pow2(r)) + (byte(i + q + 1) % Pow2(r)) * Pow2(8 - r)]

RECURSIVE LessFrom(_, _, _)
LessFrom(a, b, i) ==
    IF i < 1 THEN FALSE
    ELSE IF a[i] # b[i] THEN a[i] < b[i]
    ELSE LessFrom(a, b, i - 1)

\* a < b and a <= b
Lt(a, b) == LessFrom(a, b, 8)
Le(a, b) == ~ Lt(b, a)


RECURSIVE SubBorrow(_, _, _, _)
SubBorrow(a, b, i, borrow) ==
    IF i > 8 THEN << >>
    ELSE LET d == a[i] - b[i] - borrow
         IN  << d % 256 >> \o SubBorrow(a, b, i + 1, IF d < 0 THEN 1 ELSE 0)

\* a - b, wrapping at 2^64
Sub(a, b) == SubBorrow(a, b, 1, 0)

(***************************************************************************)
(* Constants and option values                                             *)
(***************************************************************************)
PAGE_SIZE == 4096
ENTRY_COUNT == 512

None == [tag |-> "None"]
Some(v) == [tag |-> "Some", v |-> v]
IsSome(o) == o.tag = "Some"
\* the result of an operation that ended in a panic
Panic == [tag |-> "Panic"]

(***************************************************************************)
(* Page and Frame (paging/mod.rs)                                          *)
(***************************************************************************)
\* the assertion of Page::containing_address
Canonical(address) ==
    \/ Lt(address, W16(0, \h8000, 0, 0))
    \/ Le(W16(\hffff, \h8000, 0, 0), address)

\* Page::containing_address, the number of the page (the assertion is Canonical)
ContainingAddress(address) == Div(address, PAGE_SIZE)

\* Page::start_address
StartAddress(page) == Mul(page, PAGE_SIZE)

\* x & 0o777: the low nine bits, an index into a table
And0o777(w) == Mod(w, \o777 + 1)

P4Index(page) == And0o777(Shr(page, 27))
P3Index(page) == And0o777(Shr(page, 18))
P2Index(page) == And0o777(Shr(page, 9))
P1Index(page) == And0o777(Shr(page, 0))

\* the four table indices of a page: the page as the MMU decodes it
Indices(page) == << P4Index(page), P3Index(page), P2Index(page), P1Index(page) >>

\* Page + usize
PageAdd(page, rhs) == Add(page, U(rhs))

\* Frame::containing_address and Frame::start_address
FrameContaining(address) == Div(address, PAGE_SIZE)
FrameStart(frame) == Mul(frame, PAGE_SIZE)

\* Page::containing_address with the upper bound of its assertion one too
\* low: the first address of the higher half is taken for an invalid one
PageContainingAddressOffByOne(s, address) ==
    IF s.fatal # "none" THEN [s |-> s, r |-> Panic]
    ELSE IF ~ (\/ Lt(address, W16(0, \h8000, 0, 0))
               \/ Lt(W16(\hffff, \h8000, 0, 0), address))
    THEN [s |-> [s EXCEPT !.fatal = "invalid address"], r |-> Panic]
    ELSE [s |-> s, r |-> Some(Div(address, PAGE_SIZE))]

(***************************************************************************)
(* Page-table entries and physical memory                                  *)
(***************************************************************************)
\* an entry is a frame and a set of flags; the all-zero entry is unused
Zero == [frame |-> U(0), flags |-> {}]
IsUnused(e) == e = Zero
PointedFrame(e) == IF "PRESENT" \in e.flags THEN Some(e.frame) ELSE None
EntrySet(frame, flags) == [frame |-> frame, flags |-> flags]

\* a table with all 512 entries zero: only entries in use are stored
EmptyTable == [i \in {} |-> Zero]

\* memory holds the frames that were written as tables: frame -> index -> entry
ReadEntry(m, f, i) ==
    IF f \in DOMAIN m /\ i \in DOMAIN m[f] THEN m[f][i] ELSE Zero

WriteEntry(m, f, i, e) ==
    LET t == IF f \in DOMAIN m THEN m[f] ELSE EmptyTable
        dom == IF e = Zero THEN DOMAIN t \ {i} ELSE DOMAIN t \cup {i}
        nt == [j \in dom |-> IF j = i THEN e ELSE t[j]]
    IN  [g \in DOMAIN m \cup {f} |-> IF g = f THEN nt ELSE m[g]]

ZeroFrame(m, f) == [g \in DOMAIN m \cup {f} |-> IF g = f THEN EmptyTable ELSE m[g]]

(***************************************************************************)
(* The MMU: page walk from CR3 and the TLB                                 *)
(***************************************************************************)
\* let v = ...; F: the value is computed once and named in F
Let(v, F(_)) == F(v)

\* the frame the walk from table frame f reaches along the indices h[k..4];
\* a HUGE_PAGE entry at P3 or P2 ends the walk early
RECURSIVE Walk(_, _, _, _)
Walk(m, f, h, k) ==
    IF k > 4 THEN Some(f)
    ELSE Let(ReadEntry(m, f, h[k]), LAMBDA e :
             IF "PRESENT" \notin e.flags THEN None
             ELSE IF "HUGE_PAGE" \in e.flags /\ k = 2
                  THEN Some(Add(e.frame, U(h[3] * ENTRY_COUNT + h[4])))
             ELSE IF "HUGE_PAGE" \in e.flags /\ k = 3
                  THEN Some(Add(e.frame, U(h[4])))
             ELSE Walk(m, e.frame, h, k + 1))

\* an access to virtual page h (four indices): a TLB hit uses the cached
\* frame, a miss walks the tables from CR3 and caches the result; an unmapped
\* page is a page fault
Access(s, h) ==
    IF s.fatal # "none" \/ h \in DOMAIN s.tlb THEN s
    ELSE Let(Walk(s.mem, FrameContaining(s.cr3), h, 1), LAMBDA w :
             IF w = None THEN [s EXCEPT !.fatal = "page fault"]
             ELSE [s EXCEPT !.tlb = (h :> w.v) @@ @])

\* entry i of the table at virtual page h, after Access(s, h)
Load(s, h, i) == ReadEntry(s.mem, s.tlb[h], i)
Store(s, h, i, e) == [s EXCEPT !.mem = WriteEntry(@, s.tlb[h], i, e)]

\* tlb::flush(address) and tlb::flush_all()
TlbFlush(s, address) ==
    Let(Indices(Div(address, PAGE_SIZE)), LAMBDA h :
        [s EXCEPT !.tlb = [k \in DOMAIN @ \ {h} |-> @[k]]])
TlbFlushAll(s) == [s EXCEPT !.tlb = << >>]

(***************************************************************************)
(* The machine state operators work on:                                    *)
(*   [cr3, mem, free, tlb, fatal]                                          *)
(* cr3 the frame in CR3, mem the table frames, free the frame allocator's  *)
(* free frames, tlb the cached translations (page indices -> frame), fatal *)
(* "none" or the message of the panic that halted the kernel.  A panic     *)
(* keeps what was written before it; nothing runs after it.                *)
(***************************************************************************)
Fail(s, msg) == IF s.fatal = "none" THEN [s EXCEPT !.fatal = msg] ELSE s
Ok(s) == s.fatal = "none"

\* allocate_frames(1): the lowest free frame, None when none is left
MinFrame(S) == CHOOSE f \in S : \A g \in S : Le(f, g)
AllocateFrames(s) ==
    IF s.free = {} THEN [s |-> s, frame |-> None]
    ELSE Let(MinFrame(s.free), LAMBDA f :
             [s |-> [s EXCEPT !.free = @ \ {f}], frame |-> Some(f)])

(***************************************************************************)
(* Table hierarchy: a table is named by the virtual page it is reached at, *)
(* through the recursive slot 511                                          *)
(***************************************************************************)
\* table::P4, 0xffffffff_fffff000
P4 == << 511, 511, 511, 511 >>

\* the address of the child table: one more level through the recursive slot
NextTableAddress(h, i) == << h[2], h[3], h[4], i >>

\* Table::next_table(index), of a table that was accessed
NextTable(s, h, i) ==
    Let(Load(s, h, i), LAMBDA e :
        IF "PRESENT" \in e.flags /\ "HUGE_PAGE" \notin e.flags
        THEN Some(NextTableAddress(h, i))
        ELSE None)

\* the new table of next_table_create: a frame is allocated, the entry set
\* and the table zeroed
NewTable(s1, h, i, c) ==
    Let(AllocateFrames(s1), LAMBDA a :
        IF a.frame = None
        THEN [s |-> Fail(a.s, "no frames available"), t |-> c]
        ELSE Let(Access(Store(a.s, h, i,
                              EntrySet(a.frame.v, {"PRESENT", "WRITABLE"})), c),
                 LAMBDA s3 :
                     IF ~ Ok(s3) THEN [s |-> s3, t |-> c]
                     ELSE [s |-> [s3 EXCEPT !.mem = ZeroFrame(@, s3.tlb[c])],
                           t |-> c]))

\* Table::next_table_create(index): [s, t], t the child table
NextTableCreate(s, h, i) ==
    Let(Access(s, h), LAMBDA s1 :
    Let(NextTableAddress(h, i), LAMBDA c :
        IF ~ Ok(s1) THEN [s |-> s1, t |-> c]
        ELSE IF IsSome(NextTable(s1, h, i)) THEN [s |-> s1, t |-> c]
        ELSE IF "HUGE_PAGE" \in Load(s1, h, i).flags
        THEN [s |-> Fail(s1, "mapping code does not support huge pages"), t |-> c]
        ELSE NewTable(s1, h, i, c)))

\* opt.and_then(|t| t.next_table(index)) on x = [s, r], r an optional table
AndThenNextTable(x, i) ==
    IF ~ Ok(x.s) \/ x.r = None THEN x
    ELSE Let(Access(x.s, x.r.v), LAMBDA s1 :
             IF ~ Ok(s1) THEN [s |-> s1, r |-> Panic]
             ELSE [s |-> s1, r |-> NextTable(s1, x.r.v, i)])

\* opt.and_then(|p1| p1[index].pointed_frame()) on x = [s, r]
AndThenPointedFrame(x, i) ==
    IF ~ Ok(x.s) \/ x.r = None THEN x
    ELSE Let(Access(x.s, x.r.v), LAMBDA s1 :
             IF ~ Ok(s1) THEN [s |-> s1, r |-> Panic]
             ELSE [s |-> s1, r |-> PointedFrame(Load(s1, x.r.v, i))])

(***************************************************************************)
(* Mapper (paging/mapper.rs)                                               *)
(***************************************************************************)
\* the 2MiB half of huge_page without its assertion on the frame number
HugePage2MUnchecked(x, page) ==
    IF x.r = None THEN x
    ELSE Let(Access(x.s, x.r.v), LAMBDA s2 :
             IF ~ Ok(s2) THEN [s |-> s2, r |-> Panic]
             ELSE Let(Load(s2, x.r.v, P2Index(page)), LAMBDA p2_entry :
                      IF IsSome(PointedFrame(p2_entry)) /\ "HUGE_PAGE" \in p2_entry.flags
                      THEN [s |-> s2,
                            r |-> Some(Add(p2_entry.frame, U(P1Index(page))))]
                      ELSE [s |-> s2, r |-> None]))

\* the 2MiB half of the closure huge_page: x = [s, r], r the optional P2 table
HugePage2M(x, page) ==
    IF x.r = None THEN x
    ELSE Let(Access(x.s, x.r.v), LAMBDA s2 :
             IF ~ Ok(s2) THEN [s |-> s2, r |-> Panic]
             ELSE Let(Load(s2, x.r.v, P2Index(page)), LAMBDA p2_entry :
                      IF IsSome(PointedFrame(p2_entry)) /\ "HUGE_PAGE" \in p2_entry.flags
                      THEN IF Mod(p2_entry.frame, ENTRY_COUNT) # 0
                           THEN [s |-> Fail(s2, "assertion failed: 2MiB aligned"),
                                 r |-> Panic]
                           ELSE [s |-> s2,
                                 r |-> Some(Add(p2_entry.frame, U(P1Index(page))))]
                      ELSE [s |-> s2, r |-> None]))

\* the closure huge_page of translate_page, p3 the optional P3 table
HugePage(s, p3, page) ==
    IF ~ Ok(s) THEN [s |-> s, r |-> Panic]
    ELSE IF p3 = None THEN [s |-> s, r |-> None]
    ELSE Let(Access(s, p3.v), LAMBDA s1 :
             IF ~ Ok(s1) THEN [s |-> s1, r |-> Panic]
             ELSE Let(Load(s1, p3.v, P3Index(page)), LAMBDA p3_entry :
                      IF IsSome(PointedFrame(p3_entry)) /\ "HUGE_PAGE" \in p3_entry.flags
                      THEN IF Mod(p3_entry.frame, ENTRY_COUNT * ENTRY_COUNT) # 0
                           THEN [s |-> Fail(s1, "assertion failed: 1GiB aligned"),
                                 r |-> Panic]
                           ELSE [s |-> s1,
                                 r |-> Some(Add(p3_entry.frame,
                                                U(P2Index(page) * ENTRY_COUNT
                                                  + P1Index(page))))]
                      ELSE HugePage2M([s |-> s1,
                                       r |-> NextTable(s1, p3.v, P3Index(page))],
                                      page)))

\* Mapper::translate_page: [s, r], r the optional frame
TranslatePage(s, page) ==
    Let(AndThenNextTable([s |-> s, r |-> Some(P4)], P4Index(page)), LAMBDA p3 :
    Let(AndThenPointedFrame(
            AndThenNextTable(AndThenNextTable(p3, P3Index(page)), P2Index(page)),
            P1Index(page)),
        LAMBDA leaf :
            IF ~ Ok(leaf.s) THEN [s |-> leaf.s, r |-> Panic]
            ELSE IF IsSome(leaf.r) THEN leaf
            ELSE HugePage(leaf.s, p3.r, page)))

\* Mapper::translate: [s, r], r the optional physical address
Translate(s, virtual_address) ==
    IF ~ Ok(s) THEN [s |-> s, r |-> Panic]
    ELSE IF ~ Canonical(virtual_address)
    THEN [s |-> Fail(s, "invalid address"), r |-> Panic]
    ELSE Let(TranslatePage(s, ContainingAddress(virtual_address)), LAMBDA t :
             IF IsSome(t.r)
             THEN [s |-> t.s,
                   r |-> Some(Add(Mul(t.r.v, PAGE_SIZE),
                                  U(Mod(virtual_address, PAGE_SIZE))))]
             ELSE t)

\* map_to with "| EntryFlags::PRESENT" left out of the entry it sets
MapToNotPresent(s, page, frame, flags) ==
    Let(NextTableCreate(s, P4, P4Index(page)), LAMBDA r3 :
    Let(NextTableCreate(r3.s, r3.t, P3Index(page)), LAMBDA r2 :
    Let(NextTableCreate(r2.s, r2.t, P2Index(page)), LAMBDA r1 :
    Let(Access(r1.s, r1.t), LAMBDA s1 :
        IF ~ Ok(s1) THEN s1
        ELSE Store(s1, r1.t, P1Index(page), EntrySet(frame, flags))))))

\* map_to without its assertion: an entry in use is overwritten
MapToOverwrites(s, page, frame, flags) ==
    Let(NextTableCreate(s, P4, P4Index(page)), LAMBDA r3 :
    Let(NextTableCreate(r3.s, r3.t, P3Index(page)), LAMBDA r2 :
    Let(NextTableCreate(r2.s, r2.t, P2Index(page)), LAMBDA r1 :
    Let(Access(r1.s, r1.t), LAMBDA s1 :
        IF ~ Ok(s1) THEN s1
        ELSE Store(s1, r1.t, P1Index(page), EntrySet(frame, flags \cup {"PRESENT"}))))))

\* Mapper::map_to: the state after it; it returns MapperFlush::new(page)
MapTo(s, page, frame, flags) ==
    Let(NextTableCreate(s, P4, P4Index(page)), LAMBDA r3 :
    Let(NextTableCreate(r3.s, r3.t, P3Index(page)), LAMBDA r2 :
    Let(NextTableCreate(r2.s, r2.t, P2Index(page)), LAMBDA r1 :
    Let(Access(r1.s, r1.t), LAMBDA s1 :
        IF ~ Ok(s1) THEN s1
        ELSE IF ~ IsUnused(Load(s1, r1.t, P1Index(page)))
        THEN Fail(s1, "assertion failed: p1[page.p1_index()].is_unused()")
        ELSE Store(s1, r1.t, P1Index(page), EntrySet(frame, flags \cup {"PRESENT"}))))))

\* Mapper::map
Map(s, page, flags) ==
    IF ~ Ok(s) THEN s
    ELSE Let(AllocateFrames(s), LAMBDA a :
             IF a.frame = None THEN Fail(a.s, "out of memory")
             ELSE MapTo(a.s, page, a.frame.v, flags))

\* the page identity_map maps: the frame's address taken as a virtual address
IdentityPage(frame) == ContainingAddress(FrameStart(frame))

\* Mapper::identity_map
IdentityMap(s, frame, flags) ==
    IF ~ Ok(s) THEN s
    ELSE IF ~ Canonical(FrameStart(frame)) THEN Fail(s, "invalid address")
    ELSE MapTo(s, IdentityPage(frame), frame, flags)

\* unmap with set_unused() left out: the entry is flushed but stays
UnmapEntryKept(p1, page) ==
    IF ~ Ok(p1.s) THEN p1.s
    ELSE IF p1.r = None
    THEN Fail(p1.s, "mapping code does not support huge pages")
    ELSE TlbFlush(Access(p1.s, p1.r.v), StartAddress(page))

\* unmap with tlb::flush left out: the entry is cleared, the TLB kept
UnmapEntryNoFlush(p1, page) ==
    IF ~ Ok(p1.s) THEN p1.s
    ELSE IF p1.r = None
    THEN Fail(p1.s, "mapping code does not support huge pages")
    ELSE Let(Access(p1.s, p1.r.v), LAMBDA s1 :
             IF ~ Ok(s1) THEN s1
             ELSE IF PointedFrame(Load(s1, p1.r.v, P1Index(page))) = None
             THEN Fail(s1, "called Option::unwrap() on a None value")
             ELSE Store(s1, p1.r.v, P1Index(page), Zero))

\* unmap with the commented-out deallocate_frame(frame) in force: the frame
\* the page pointed to goes back to the allocator
UnmapEntryDeallocates(p1, page) ==
    IF ~ Ok(p1.s) THEN p1.s
    ELSE IF p1.r = None
    THEN Fail(p1.s, "mapping code does not support huge pages")
    ELSE Let(Access(p1.s, p1.r.v), LAMBDA s1 :
             IF ~ Ok(s1) THEN s1
             ELSE Let(PointedFrame(Load(s1, p1.r.v, P1Index(page))), LAMBDA frame :
                  IF frame = None
                  THEN Fail(s1, "called Option::unwrap() on a None value")
                  ELSE [TlbFlush(Store(s1, p1.r.v, P1Index(page), Zero),
                                 StartAddress(page))
                        EXCEPT !.free = @ \cup {frame.v}]))

\* the rest of Mapper::unmap, p1 = [s, r] the optional P1 table
UnmapEntry(p1, page) ==
    IF ~ Ok(p1.s) THEN p1.s
    ELSE IF p1.r = None
    THEN Fail(p1.s, "mapping code does not support huge pages")
    ELSE Let(Access(p1.s, p1.r.v), LAMBDA s1 :
             IF ~ Ok(s1) THEN s1
             ELSE IF PointedFrame(Load(s1, p1.r.v, P1Index(page))) = None
             THEN Fail(s1, "called Option::unwrap() on a None value")
             ELSE TlbFlush(Store(s1, p1.r.v, P1Index(page), Zero),
                           StartAddress(page)))

\* unmap without its assertion that the page is mapped
UnmapNoAssert(s, page) ==
    UnmapEntry(
        AndThenNextTable(
            AndThenNextTable(
                AndThenNextTable([s |-> s, r |-> Some(P4)], P4Index(page)),
                P3Index(page)),
            P2Index(page)),
        page)

\* Mapper::unmap
Unmap(s, page) ==
    Let(Translate(s, StartAddress(page)), LAMBDA t :
        IF ~ Ok(t.s) THEN t.s
        ELSE IF ~ IsSome(t.r)
        THEN Fail(t.s, "assertion failed: self.translate(page.start_address()).is_some()")
        ELSE UnmapEntry(
                 AndThenNextTable(
                     AndThenNextTable(
                         AndThenNextTable([s |-> t.s, r |-> Some(P4)], P4Index(page)),
                         P3Index(page)),
                     P2Index(page)),
                 page))

(***************************************************************************)
(* MapperFlush and MapperFlushAll                                          *)
(***************************************************************************)
\* ActivePageTable::flush(page) and flush_all()
ActiveFlush(s, page) == TlbFlush(s, StartAddress(page))
ActiveFlushAll(s) == TlbFlushAll(s)

\* impl Drop for MapperFlush / MapperFlushAll: what destroying a token does
MapperFlushDrop(s) == Fail(s, "Flush not consumed!")
MapperFlushAllDrop(s) == Fail(s, "FlushAll not consumed!")

\* mem::forget(token): the token is gone and its drop never runs
Forget(s) == s

\* flush with mem::forget(self) left out: the token is dropped on return
MapperFlushFlushDropped(s, page) == MapperFlushDrop(ActiveFlush(s, page))

\* MapperFlush::flush and MapperFlush::ignore
MapperFlushFlush(s, page) == Forget(ActiveFlush(s, page))
MapperFlushIgnore(s) == Forget(s)

\* MapperFlushAll::consume sets the flag (and forgets the MapperFlush);
\* MapperFlushAll::flush flushes the whole TLB when the flag is set
MapperFlushAllFlush(s, changed) ==
    Forget(IF changed THEN ActiveFlushAll(s) ELSE s)

(***************************************************************************)
(* TemporaryPage, InactivePageTable::new and ActivePageTable::switch       *)
(***************************************************************************)
\* control_regs::cr3_write: loading CR3 drops the cached translations
Cr3Write(s, address) == [s EXCEPT !.cr3 = address, !.tlb = << >>]

\* TemporaryPage::map_table_frame: the page is mapped writable to the frame
\* and the change flushed; the table is then reached at the page's address
TempMapTableFrame(s, page, frame) ==
    MapperFlushFlush(MapTo(s, page, frame, {"WRITABLE"}), page)

\* TemporaryPage::unmap left out: the temporary page stays mapped
TempUnmapSkipped(s, page) == s

\* TemporaryPage::unmap: the mapping is removed and the change flushed
TempUnmap(s, page) == MapperFlushFlush(Unmap(s, page), page)

\* InactivePageTable::new without the write of slot 511: the frame is zeroed
InactiveNewNoRecursive(s, frame, temporary_page) ==
    Let(Indices(temporary_page), LAMBDA t :
    Let(Access(TempMapTableFrame(s, temporary_page, frame), t), LAMBDA s1 :
        IF ~ Ok(s1) THEN s1
        ELSE TempUnmap([s1 EXCEPT !.mem = ZeroFrame(@, s1.tlb[t])], temporary_page)))

\* InactivePageTable::new writing the frame of the table in CR3 to slot 511
InactiveNewRecursiveToActive(s, frame, temporary_page) ==
    Let(Indices(temporary_page), LAMBDA t :
    Let(Access(TempMapTableFrame(s, temporary_page, frame), t), LAMBDA s1 :
        IF ~ Ok(s1) THEN s1
        ELSE TempUnmap(Store([s1 EXCEPT !.mem = ZeroFrame(@, s1.tlb[t])], t, 511,
                             EntrySet(FrameContaining(s.cr3), {"PRESENT", "WRITABLE"})),
                       temporary_page)))

\* InactivePageTable::new
InactiveNew(s, frame, temporary_page) ==
    Let(Indices(temporary_page), LAMBDA t :
    Let(Access(TempMapTableFrame(s, temporary_page, frame), t), LAMBDA s1 :
        IF ~ Ok(s1) THEN s1
        ELSE TempUnmap(Store([s1 EXCEPT !.mem = ZeroFrame(@, s1.tlb[t])], t, 511,
                             EntrySet(frame, {"PRESENT", "WRITABLE"})),
                       temporary_page)))

\* switch reading CR3 after it was written: the new table is returned
SwitchReadsLate(s, new_table) ==
    [s |-> Cr3Write(s, FrameStart(new_table)),
     old_table |-> FrameContaining(FrameStart(new_table))]

\* ActivePageTable::switch: [s, old_table], old_table the p4_frame returned
Switch(s, new_table) ==
    [s |-> Cr3Write(s, FrameStart(new_table)),
     old_table |-> FrameContaining(s.cr3)]

\* ActivePageTable::with, statement by statement
\* :169-173  backup = the frame in CR3; map the temporary page to it
WithMapBackup(s, temporary_page) ==
    TempMapTableFrame(s, temporary_page, FrameContaining(s.cr3))

\* with leaving the recursive mapping as it is
WithOverwriteSkipped(s, table) == Access(s, P4)

\* :176-179  overwrite the recursive mapping
WithOverwrite(s, table) ==
    Let(Access(s, P4), LAMBDA s1 :
        IF ~ Ok(s1) THEN s1
        ELSE Store(s1, P4, 511, EntrySet(table, {"PRESENT", "WRITABLE"})))

\* with without its calls of tlb::flush_all()
WithNoFlushAll(s) == s

\* :180 and :187  tlb::flush_all()
WithFlushAll(s) == TlbFlushAll(s)

\* :186  restore the recursive mapping through the temporary page
WithRestore(s, temporary_page, backup) ==
    Let(Access(s, Indices(temporary_page)), LAMBDA s1 :
        IF ~ Ok(s1) THEN s1
        ELSE Store(s1, Indices(temporary_page), 511,
                   EntrySet(backup, {"PRESENT", "WRITABLE"})))

(***************************************************************************)
(* PageIter and StackAllocator (paging/mod.rs, stack_allocator.rs)         *)
(***************************************************************************)
\* Page::range_inclusive
RangeInclusive(start, end) == [start |-> start, end |-> end]

\* PageIter::next: [it, r]
IterNext(it) ==
    IF Le(it.start, it.end)
    THEN [it |-> [it EXCEPT !.start = Add(@, U(1))], r |-> Some(it.start)]
    ELSE [it |-> it, r |-> None]

\* Iterator::nth(n): n elements are skipped, the next one returned
RECURSIVE IterNth(_, _)
IterNth(it, n) ==
    Let(IterNext(it), LAMBDA x :
        IF x.r = None \/ n = 0 THEN x ELSE IterNth(x.it, n - 1))

\* the loop of alloc_stack: every page of the iterator is mapped and flushed
RECURSIVE MapStackPages(_, _)
MapStackPages(s, it) ==
    Let(IterNext(it), LAMBDA x :
        IF ~ Ok(s) \/ x.r = None THEN s
        ELSE MapStackPages(MapperFlushFlush(Map(s, x.r.v, {"PRESENT"}), x.r.v), x.it))

\* Stack::new: [s, r]
StackNew(s, top, bottom) ==
    IF ~ Lt(bottom, top)
    THEN [s |-> Fail(s, "assertion failed: top > bottom"), r |-> Panic]
    ELSE [s |-> s, r |-> Some([top |-> top, bottom |-> bottom])]

\* the Some arm of alloc_stack: the range is written back, the pages mapped
\* and the Stack made
AllocStackPages(s, start, end, range) ==
    Let(MapStackPages(s, RangeInclusive(start, end)), LAMBDA mapped :
        IF ~ Ok(mapped) THEN [s |-> mapped, range |-> range, r |-> Panic]
        ELSE Let(StackNew(mapped, Add(StartAddress(end), U(PAGE_SIZE)),
                          StartAddress(start)),
                 LAMBDA stack : [s |-> stack.s, range |-> range, r |-> stack.r]))

\* alloc_stack without the guard page: the stack starts at the range's first page
AllocStackNoGuard(s, range, size_in_pages) ==
    IF size_in_pages = 0 THEN [s |-> s, range |-> range, r |-> None]
    ELSE
    Let(IterNext(range), LAMBDA stack_start :
    Let(IF size_in_pages = 1 THEN stack_start
        ELSE IterNth(stack_start.it, size_in_pages - 2), LAMBDA stack_end :
        IF IsSome(stack_start.r) /\ IsSome(stack_end.r)
        THEN AllocStackPages(s, stack_start.r.v, stack_end.r.v, stack_end.it)
        ELSE [s |-> s, range |-> range, r |-> None]))

\* alloc_stack working on self.range itself instead of a clone: the pages
\* taken are gone even when the stack does not fit
AllocStackNoClone(s, range, size_in_pages) ==
    IF size_in_pages = 0 THEN [s |-> s, range |-> range, r |-> None]
    ELSE
    Let(IterNext(range), LAMBDA guard_page :
    Let(IterNext(guard_page.it), LAMBDA stack_start :
    Let(IF size_in_pages = 1 THEN stack_start
        ELSE IterNth(stack_start.it, size_in_pages - 2), LAMBDA stack_end :
        IF IsSome(guard_page.r) /\ IsSome(stack_start.r) /\ IsSome(stack_end.r)
        THEN AllocStackPages(s, stack_start.r.v, stack_end.r.v, stack_end.it)
        ELSE [s |-> s, range |-> stack_end.it, r |-> None])))

\* StackAllocator::alloc_stack: [s, range, r], range the allocator's range
\* after the call and r the optional Stack
AllocStack(s, range, size_in_pages) ==
    IF size_in_pages = 0 THEN [s |-> s, range |-> range, r |-> None]
    ELSE
    Let(IterNext(range), LAMBDA guard_page :
    Let(IterNext(guard_page.it), LAMBDA stack_start :
    Let(IF size_in_pages = 1 THEN stack_start
        ELSE IterNth(stack_start.it, size_in_pages - 2), LAMBDA stack_end :
        IF IsSome(guard_page.r) /\ IsSome(stack_start.r) /\ IsSome(stack_end.r)
        THEN AllocStackPages(s, stack_start.r.v, stack_end.r.v, stack_end.it)
        ELSE [s |-> s, range |-> range, r |-> None])))

(***************************************************************************)
(* State                                                                   *)
(***************************************************************************)
VARIABLES
    cr3,        \* the CR3 register: the physical address of the active P4
    mem,        \* the frames holding page tables
    free,       \* the frame allocator's free frames
    tlb,        \* the TLB
    fatal,      \* "none", or the panic that halted the kernel
    tokens,     \* the MapperFlush tokens the caller holds: page -> count
    flushAll,   \* the caller's MapperFlushAll: whether it has one, and its flag
    inactive,   \* the p4_frame of every InactivePageTable the caller holds
    pc,         \* where the kernel is: "idle" or the next statement of with
    wctx,       \* the call of with under way, or the last one
    range,      \* the StackAllocator's range
    stacks,     \* the Stacks alloc_stack returned
    boot,       \* the boot information init was given, and init's locals
    kernel,     \* the flags of the CPU the kernel's init sets, and its stages done
    last        \* the last call: its name, arguments and result

vars == << cr3, mem, free, tlb, fatal, tokens, flushAll, inactive, pc, wctx,
           range, stacks, boot, kernel, last >>

Cur == [cr3 |-> cr3, mem |-> mem, free |-> free, tlb |-> tlb, fatal |-> fatal]

Commit(s) ==
    /\ cr3' = s.cr3
    /\ mem' = s.mem
    /\ free' = s.free
    /\ tlb' = s.tlb
    /\ fatal' = s.fatal

(***************************************************************************)
(* Bounds and inputs                                                       *)
(***************************************************************************)
\* frames the allocator starts with
MaxFrames == 7
\* MapperFlush tokens the caller holds at once
MaxTokens == 1

\* the frame of the P4 the boot code loaded, its slot 511 pointing to itself
BootRoot == U(1)
\* the allocator's first free frame
FirstFree == U(16)
Pool(n) == { Add(FirstFree, U(i)) : i \in 0 .. n - 1 }

\* the reserved page of the TemporaryPage, Page { number: 0xcafebabe }
TempPage == W16(0, 0, \hcafe, \hbabe)

\* the addresses calls are made with: the VGA buffer and one of the higher
\* half, which share no table below the P4
Addresses == { U(\hb8000), W16(\hffff, \h8000, 0, \h3000) }
Pages == { ContainingAddress(a) : a \in Addresses }
Frames == { U(\hb8), U(\hb9) }
FlagSets == { {}, {"WRITABLE"} }
Offsets == { 0, 1, PAGE_SIZE - 1 }

\* bags of tokens
Count(b, p) == IF p \in DOMAIN b THEN b[p] ELSE 0
Put(b, p) == [q \in DOMAIN b \cup {p} |-> Count(b, q) + (IF q = p THEN 1 ELSE 0)]
Take(b, p) == [q \in { q \in DOMAIN b : q # p \/ b[p] > 1 } |->
                  IF q = p THEN b[q] - 1 ELSE b[q]]
RECURSIVE Size(_)
Size(b) == IF DOMAIN b = {} THEN 0
           ELSE LET p == CHOOSE p \in DOMAIN b : TRUE
                IN  b[p] + Size([q \in DOMAIN b \ {p} |-> b[q]])

Nil == << >>
NoFlushAll == [live |-> FALSE, changed |-> FALSE]
NoWith == [table |-> U(0), backup |-> U(0), before |-> << >>, fmapped |-> {}]

\* the record of a call: its name, the page it is about, one more argument,
\* its result, and the two calls before it
Did(op, page, arg, res) ==
    [op |-> op, page |-> page, arg |-> arg, res |-> res,
     prev |-> [op |-> last.op, page |-> last.page], prev2 |-> last.prev]

\* the page table the boot code leaves: a P4 whose slot 511 points to itself
BootMachine ==
    [cr3 |-> FrameStart(BootRoot),
     mem |-> (BootRoot :> (511 :> EntrySet(BootRoot, {"PRESENT", "WRITABLE"}))),
     free |-> Pool(MaxFrames),
     tlb |-> << >>,
     fatal |-> "none"]

Start(s) ==
    /\ cr3 = s.cr3
    /\ mem = s.mem
    /\ free = s.free
    /\ tlb = s.tlb
    /\ fatal = s.fatal
    /\ tokens = << >>
    /\ flushAll = NoFlushAll
    /\ inactive = {}
    /\ pc = "idle"
    /\ wctx = NoWith
    /\ stacks = {}
    /\ boot = Nil
    /\ kernel = Nil
    /\ last = [op |-> "boot", page |-> Nil, arg |-> Nil, res |-> Nil,
               prev |-> [op |-> "none", page |-> Nil],
               prev2 |-> [op |-> "none", page |-> Nil]]

Init ==
    /\ Start(BootMachine)
    /\ range = RangeInclusive(U(1), U(0))

(***************************************************************************)
(* The calls a kernel makes on the Mapper, and what it does with the       *)
(* tokens they return                                                      *)
(***************************************************************************)
Running == fatal = "none"
\* the Mapper is in reach of the kernel proper and of the closure f of with
MapperAt == pc \in {"idle", "with:f"}

\* a call returned s and, if it did not panic, a MapperFlush for page; the
\* pages the closure f of with has mapped are kept in wctx
Returned(s, page, maps) ==
    /\ Commit(s)
    /\ tokens' = IF Ok(s) THEN Put(tokens, page) ELSE tokens
    /\ wctx' = IF pc = "with:f" /\ Ok(s)
               THEN [wctx EXCEPT !.fmapped = IF maps THEN @ \cup {page}
                                             ELSE @ \ {page}]
               ELSE wctx
    /\ UNCHANGED << flushAll, inactive, pc, range, stacks, boot, kernel >>

CallMapTo(page, frame, flags) ==
    /\ Running /\ MapperAt /\ Size(tokens) < MaxTokens
    /\ \E s \in {MapTo(Cur, page, frame, flags)} : Returned(s, page, TRUE)
    /\ last' = Did("map_to", page, frame, flags)

CallMap(page, flags) ==
    /\ Running /\ MapperAt /\ Size(tokens) < MaxTokens
    /\ \E s \in {Map(Cur, page, flags)} : Returned(s, page, TRUE)
    /\ last' = Did("map", page, Nil, flags)

CallIdentityMap(frame, flags) ==
    /\ Running /\ MapperAt /\ Size(tokens) < MaxTokens
    /\ \E s \in {IdentityMap(Cur, frame, flags)} : Returned(s, IdentityPage(frame), TRUE)
    /\ last' = Did("identity_map", IdentityPage(frame), frame, flags)

CallUnmap(page) ==
    /\ Running /\ MapperAt /\ Size(tokens) < MaxTokens
    /\ \E s \in {Unmap(Cur, page)} : Returned(s, page, FALSE)
    /\ last' = Did("unmap", page, Nil, Nil)

\* what happens to a token: the machine state s after it, and the call
Consumed(s, page, op) ==
    /\ Commit(s)
    /\ tokens' = Take(tokens, page)
    /\ last' = Did(op, page, Nil, Nil)
    /\ UNCHANGED << inactive, pc, wctx, range, stacks, boot, kernel >>

\* MapperFlush::flush needs the ActivePageTable, which with has borrowed
CallFlush(page) ==
    /\ Running /\ pc = "idle" /\ page \in DOMAIN tokens
    /\ Consumed(MapperFlushFlush(Cur, page), page, "flush")
    /\ UNCHANGED flushAll

CallIgnore(page) ==
    /\ Running /\ MapperAt /\ page \in DOMAIN tokens
    /\ Consumed(MapperFlushIgnore(Cur), page, "ignore")
    /\ UNCHANGED flushAll

\* a token goes out of scope
DropToken(page) ==
    /\ Running /\ MapperAt /\ page \in DOMAIN tokens
    /\ Consumed(MapperFlushDrop(Cur), page, "drop")
    /\ UNCHANGED flushAll

\* MapperFlushAll::new
NewFlushAll ==
    /\ Running /\ MapperAt /\ ~ flushAll.live
    /\ flushAll' = [live |-> TRUE, changed |-> FALSE]
    /\ last' = Did("flush_all_new", Nil, Nil, Nil)
    /\ UNCHANGED << cr3, mem, free, tlb, fatal, tokens, inactive, pc, wctx,
                    range, stacks, boot, kernel >>

\* MapperFlushAll::consume(flush)
CallConsume(page) ==
    /\ Running /\ MapperAt /\ flushAll.live /\ page \in DOMAIN tokens
    /\ Consumed(Forget(Cur), page, "consume")
    /\ flushAll' = [live |-> TRUE, changed |-> TRUE]

\* what happens to the MapperFlushAll
FlushAllGone(s, op) ==
    /\ Commit(s)
    /\ flushAll' = NoFlushAll
    /\ last' = Did(op, Nil, flushAll.changed, Nil)
    /\ UNCHANGED << tokens, inactive, pc, wctx, range, stacks, boot, kernel >>

CallFlushAllFlush ==
    /\ Running /\ pc = "idle" /\ flushAll.live
    /\ FlushAllGone(MapperFlushAllFlush(Cur, flushAll.changed), "flush_all_flush")

CallFlushAllForget ==
    /\ Running /\ MapperAt /\ flushAll.live
    /\ FlushAllGone(Forget(Cur), "flush_all_forget")

DropFlushAll ==
    /\ Running /\ MapperAt /\ flushAll.live
    /\ FlushAllGone(MapperFlushAllDrop(Cur), "flush_all_drop")

\* the calls on the Mapper, with pages of P, frames of F and flags of FL
MapperCalls(P, F, FL) ==
    \/ \E p \in P, f \in F, fl \in FL : CallMapTo(p, f, fl)
    \/ \E p \in P, fl \in FL : CallMap(p, fl)
    \/ \E f \in { g \in F : IdentityPage(g) \in P }, fl \in FL : CallIdentityMap(f, fl)
    \/ \E p \in P : CallUnmap(p)

\* what the caller does with a MapperFlush it holds
TokenCalls ==
    \/ \E p \in DOMAIN tokens : CallFlush(p)
    \/ \E p \in DOMAIN tokens : CallIgnore(p)
    \/ \E p \in DOMAIN tokens : DropToken(p)

\* the calls on a MapperFlushAll
FlushAllCalls ==
    \/ NewFlushAll
    \/ \E p \in DOMAIN tokens : CallConsume(p)
    \/ CallFlushAllFlush
    \/ CallFlushAllForget
    \/ DropFlushAll

(***************************************************************************)
(* Spec: a kernel that maps, translates and unmaps pages of the table the  *)
(* boot code left                                                          *)
(***************************************************************************)
Next == MapperCalls(Pages, Frames, FlagSets) \/ TokenCalls

Spec == Init /\ [][Next]_vars

\* C1: whenever map_to(p, f, flags) returns (p was unmapped, or it would have
\* panicked), translate(p.start_address() + o) is Some(f.start_address() + o)
\* for every offset o below PAGE_SIZE, whichever of the P3, P2 and P1 tables
\* had to be created on the way
MapToThenTranslate ==
    (last.op = "map_to" /\ fatal = "none") =>
        \A o \in Offsets :
            Translate(Cur, Add(StartAddress(last.page), U(o))).r
                = Some(Add(FrameStart(last.arg), U(o)))

\* map_to returned on the table the boot code left: all three tables below
\* the P4 were created by the call
MapToCreatedTables ==
    /\ last.op = "map_to" /\ fatal = "none"
    /\ last.prev.op = "boot"
    /\ Cardinality(free) = MaxFrames - 3

\* C2: map(p, flags) on an unmapped page p, its token flushed, then unmap(p):
\* unmap returns and translate(p.start_address()) is None, whatever was
\* mapped and unmapped before
MapFlushThenUnmap ==
    last.op = "unmap" /\ last.prev.op = "flush" /\ last.prev.page = last.page
                      /\ last.prev2.op = "map" /\ last.prev2.page = last.page
                      /\ fatal = "none"

MapFlushUnmapNone ==
    (/\ last.op = "unmap"
     /\ last.prev = [op |-> "flush", page |-> last.page]
     /\ last.prev2 = [op |-> "map", page |-> last.page]) =>
        /\ fatal = "none"
        /\ Translate(Cur, StartAddress(last.page)).r = None

\* the three calls were made while another page was mapped
MapFlushUnmapAmongOthers ==
    /\ MapFlushThenUnmap
    /\ \E q \in Pages \ {last.page} : IsSome(TranslatePage(Cur, q).r)

(***************************************************************************)
(* SpecTokens: the same kernel on one page, with a MapperFlushAll          *)
(***************************************************************************)
VgaPage == ContainingAddress(U(\hb8000))
VgaFrame == U(\hb8)

NextTokens ==
    \/ MapperCalls({VgaPage}, {VgaFrame}, {{"WRITABLE"}})
    \/ TokenCalls
    \/ FlushAllCalls

SpecTokens == Init /\ [][NextTokens]_vars

\* the tokens the caller holds, the MapperFlushAll included
Held == Size(tokens) + (IF flushAll.live THEN 1 ELSE 0)
DropCalls == {"drop", "flush_all_drop"}
ConsumeCalls == {"flush", "ignore", "consume", "flush_all_flush", "flush_all_forget"}

\* C9: a MapperFlush or MapperFlushAll that is destroyed without having been
\* consumed halts the kernel; one that is consumed (flush, ignore or forget,
\* MapperFlushAll::consume) is gone after the call, so it is consumed once,
\* and the kernel runs on
TokensConsumedOnce ==
    [][/\ (last' # last /\ last'.op \in DropCalls) =>
              fatal' \in {"Flush not consumed!", "FlushAll not consumed!"}
       /\ (last' # last /\ last'.op \in ConsumeCalls) =>
              (fatal' = "none" /\ Held' = Held - 1)]_vars

\* a MapperFlushAll consumed the token of an unmap and was then flushed
FlushAllConsumedAndFlushed ==
    /\ last.op = "flush_all_flush" /\ last.arg = TRUE
    /\ last.prev.op = "consume"
    /\ fatal = "none"

(***************************************************************************)
(* SpecStack: a kernel that allocates stacks from one StackAllocator, over *)
(* ranges of up to MaxRange pages and frame pools of up to MaxPool frames  *)
(***************************************************************************)
\* pages in the StackAllocator's range
MaxRange == 5
\* size_in_pages of a call
MaxStack == 3
\* frames the allocator starts with
MaxPool == 10

\* the range's first page: the last but one of a P1 table, so that the range
\* runs into the next P1 table
StackBase == U(\h401fe)

\* the pages left in a PageIter
Remaining(it) == IF Le(it.start, it.end) THEN Int32(Sub(it.end, it.start)) + 1 ELSE 0

InitStack ==
    \E len \in 0 .. MaxRange, k \in 0 .. MaxPool :
        /\ Start([BootMachine EXCEPT !.free = Pool(k)])
        /\ range = RangeInclusive(StackBase, Sub(Add(StackBase, U(len)), U(1)))

CallAllocStack(size_in_pages) ==
    /\ Running /\ pc = "idle"
    /\ \E a \in {AllocStack(Cur, range, size_in_pages)} :
           /\ Commit(a.s)
           /\ range' = a.range
           /\ stacks' = IF IsSome(a.r) THEN stacks \cup {a.r.v} ELSE stacks
           /\ last' = Did("alloc_stack", Nil, size_in_pages, a.r)
    /\ UNCHANGED << tokens, flushAll, inactive, pc, wctx, boot, kernel >>

NextStack == \E n \in 0 .. MaxStack : CallAllocStack(n)

SpecStack == InitStack /\ [][NextStack]_vars

\* the pages of a Stack, and whether the MMU translates a page
StackPages(st) ==
    { Add(ContainingAddress(st.bottom), U(i)) :
          i \in 0 .. Int32(Div(Sub(st.top, st.bottom), PAGE_SIZE)) - 1 }
GuardPage(st) == Sub(ContainingAddress(st.bottom), U(1))
Mapped(page) == IsSome(Walk(mem, FrameContaining(cr3), Indices(page), 1))

\* C3: the stacks alloc_stack returned are pairwise disjoint, every page of a
\* stack is mapped, and the page below a stack's bottom is unmapped and a
\* page of no stack
StacksDisjointGuarded ==
    \A a \in stacks :
        /\ Lt(a.bottom, a.top)
        /\ \A b \in stacks \ {a} : Le(a.top, b.bottom) \/ Le(b.top, a.bottom)
        /\ \A page \in StackPages(a) : Mapped(page)
        /\ ~ Mapped(GuardPage(a))
        /\ \A b \in stacks : GuardPage(a) \notin StackPages(b)

\* two stacks were returned, one of them of several pages in two P1 tables
TwoStacks ==
    /\ fatal = "none"
    /\ Cardinality(stacks) = 2
    /\ \E a \in stacks :
           \E p, q \in StackPages(a) : P2Index(p) # P2Index(q)

\* C4 as stated: a call returns None, the range and the page tables as they
\* were, when size_in_pages is 0 or fewer than size_in_pages + 1 pages are
\* left, and returns Some exactly when size_in_pages >= 1 and that many are left
AllocStackSomeIffFits ==
    [][(last' # last /\ last'.op = "alloc_stack") =>
          /\ (last'.arg = 0 \/ Remaining(range) < last'.arg + 1) =>
                 (last'.res = None /\ fatal' = "none" /\ range' = range
                      /\ mem' = mem /\ free' = free)
          /\ IsSome(last'.res) <=>
                 (last'.arg >= 1 /\ Remaining(range) >= last'.arg + 1)]_vars

\* C4, amended: the None half as stated; when size_in_pages >= 1 and
\* size_in_pages + 1 pages are left the range is advanced by that many pages
\* and the call either returns Some or, when a frame for a stack page or for
\* a table is missing, halts the kernel; it returns Some in no other case
AllocStackSomeOrHalt ==
    [][(last' # last /\ last'.op = "alloc_stack") =>
          /\ (last'.arg = 0 \/ Remaining(range) < last'.arg + 1) =>
                 (last'.res = None /\ fatal' = "none" /\ range' = range
                      /\ mem' = mem /\ free' = free)
          /\ (last'.arg >= 1 /\ Remaining(range) >= last'.arg + 1) =>
                 /\ Remaining(range') = Remaining(range) - (last'.arg + 1)
                 /\ \/ IsSome(last'.res) /\ fatal' = "none"
                    \/ last'.res = Panic
                         /\ fatal' \in {"out of memory", "no frames available"}
                         /\ Cardinality(free) < last'.arg + 4]_vars

\* a call that fits exactly returned Some and left the range empty
ExactFit ==
    /\ last.op = "alloc_stack" /\ IsSome(last.res) /\ fatal = "none"
    /\ last.arg = MaxStack /\ Remaining(range) = 0
    /\ Cardinality(stacks) = 1

(***************************************************************************)
(* SpecWith: a kernel that makes InactivePageTables, maps into them with   *)
(* ActivePageTable::with and switches to them                              *)
(***************************************************************************)
\* InactivePageTables the kernel holds at once
MaxInactive == 2

\* what the MMU makes of the pages calls are made with, under the active table
Snapshot == [p \in Pages |-> Walk(mem, FrameContaining(cr3), Indices(p), 1)]

\* the kernel starts on the table the boot code left, with the VGA buffer
\* mapped in it or not
InitWith ==
    /\ \E s \in {[BootMachine EXCEPT !.free = Pool(MaxPool)]} :
           Start(s) \/ Start(TlbFlushAll(IdentityMap(s, VgaFrame, {"WRITABLE"})))
    /\ range = RangeInclusive(U(1), U(0))

\* InactivePageTable::new on a frame of the allocator
CallNew ==
    /\ Running /\ pc = "idle" /\ Cardinality(inactive) < MaxInactive /\ free # {}
    /\ \E a \in {AllocateFrames(Cur)} :
         \E s \in {InactiveNew(a.s, a.frame.v, TempPage)} :
           /\ Commit(s)
           /\ inactive' = IF Ok(s) THEN inactive \cup {a.frame.v} ELSE inactive
           /\ last' = Did("new", Nil, a.frame.v, Nil)
    /\ UNCHANGED << tokens, flushAll, pc, wctx, range, stacks, boot, kernel >>

\* ActivePageTable::switch: the table passed is given up, the one returned held
CallSwitch(new_table) ==
    /\ Running /\ pc = "idle" /\ new_table \in inactive
    /\ \E r \in {Switch(Cur, new_table)} :
           /\ Commit(r.s)
           /\ inactive' = (inactive \ {new_table}) \cup {r.old_table}
           /\ last' = Did("switch", Nil, new_table, r.old_table)
    /\ UNCHANGED << tokens, flushAll, pc, wctx, range, stacks, boot, kernel >>

\* one statement of with: the machine after it and the statement that follows
WithStep(op, s, then) ==
    /\ Commit(s)
    /\ pc' = IF Ok(s) THEN then ELSE pc
    /\ last' = Did(op, Nil, Nil, Nil)
    /\ UNCHANGED << tokens, flushAll, inactive, range, stacks, boot, kernel >>

\* with is called by a kernel that holds no token: lines 169-173
CallWith(table) ==
    /\ Running /\ pc = "idle" /\ table \in inactive /\ tokens = << >>
    /\ WithStep("with:map", WithMapBackup(Cur, TempPage), "with:overwrite")
    /\ wctx' = [table |-> table, backup |-> FrameContaining(cr3),
                before |-> Snapshot, fmapped |-> {}]

\* lines 176-179
WithStepOverwrite ==
    /\ Running /\ pc = "with:overwrite"
    /\ WithStep("with:overwrite", WithOverwrite(Cur, wctx.table), "with:flush_all")
    /\ UNCHANGED wctx

\* line 180
WithStepFlushAll ==
    /\ Running /\ pc = "with:flush_all"
    /\ WithStep("with:flush_all", WithFlushAll(Cur), "with:f")
    /\ UNCHANGED wctx

\* line 183: f returns; what it did is MapperCalls and the token calls, and
\* the tokens it still held would have been dropped
WithFReturn ==
    /\ Running /\ pc = "with:f" /\ tokens = << >>
    /\ WithStep("with:f", Cur, "with:restore")
    /\ UNCHANGED wctx

\* line 186
WithStepRestore ==
    /\ Running /\ pc = "with:restore"
    /\ WithStep("with:restore", WithRestore(Cur, TempPage, wctx.backup),
                "with:flush_all2")
    /\ UNCHANGED wctx

\* line 187
WithStepFlushAll2 ==
    /\ Running /\ pc = "with:flush_all2"
    /\ WithStep("with:flush_all2", WithFlushAll(Cur), "with:unmap")
    /\ UNCHANGED wctx

\* line 190: with returns
WithStepUnmap ==
    /\ Running /\ pc = "with:unmap"
    /\ WithStep("with", TempUnmap(Cur, TempPage), "idle")
    /\ UNCHANGED wctx

NextWith ==
    \/ CallNew
    \/ \E t \in inactive : CallSwitch(t)
    \/ \E t \in inactive : CallWith(t)
    \/ WithStepOverwrite
    \/ WithStepFlushAll
    \/ pc = "with:f" /\ MapperCalls({VgaPage}, {VgaFrame}, {{"WRITABLE"}})
    \/ pc = "with:f" /\ TokenCalls
    \/ WithFReturn
    \/ WithStepRestore
    \/ WithStepFlushAll2
    \/ WithStepUnmap

SpecWith == InitWith /\ [][NextWith]_vars

\* slot 511 of the active P4, the frame the temporary page is mapped to, and
\* whether every translation the TLB holds is the one the tables give
Slot511 == ReadEntry(mem, FrameContaining(cr3), 511).frame
TempMapped == Walk(mem, FrameContaining(cr3), Indices(TempPage), 1)
TlbCoherent ==
    \A h \in DOMAIN tlb : Walk(mem, FrameContaining(cr3), h, 1) = Some(tlb[h])

\* C5: switch returns the frame CR3 held before the call and leaves CR3
\* holding new_table's frame; a second switch, to the table the first one
\* returned, leaves CR3 holding that table (the original root) and returns
\* the table the first switch was given
SwitchReturnsOld ==
    [][(last' # last /\ last'.op = "switch") =>
          /\ last'.res = FrameContaining(cr3)
          /\ cr3' = FrameStart(last'.arg)
          /\ (last.op = "switch" /\ last'.arg = last.res) =>
                 (FrameContaining(cr3') = last.res /\ last'.res = last.arg)]_vars

\* two switches in a row brought the kernel back to the table the boot code left
SwitchedBack ==
    /\ last.op = "switch" /\ last.prev.op = "switch"
    /\ cr3 = FrameStart(BootRoot)
    /\ last.res \in inactive /\ last.res # BootRoot

\* C6: with maps the temporary page to the current root, then sets slot 511
\* of the active P4 to the inactive table's frame, then flushes the TLB, then
\* runs f, then sets slot 511 to the root again, then flushes the TLB, then
\* unmaps the temporary page; when it returns slot 511 points to the frame in
\* CR3, as before the call, and the TLB holds nothing of the inactive table
WithOrder ==
    /\ pc = "with:overwrite" =>
           (TempMapped = Some(wctx.backup) /\ Slot511 = wctx.backup)
    /\ pc = "with:flush_all" =>
           (TempMapped = Some(wctx.backup) /\ Slot511 = wctx.table)
    /\ (pc = "with:f" /\ last.op = "with:flush_all") => tlb = << >>
    /\ (pc = "with:f" /\ fatal = "none") =>
           (TempMapped = Some(wctx.backup) /\ Slot511 = wctx.table /\ TlbCoherent)
    /\ pc = "with:restore" =>
           (TempMapped = Some(wctx.backup) /\ Slot511 = wctx.table)
    /\ pc = "with:flush_all2" =>
           (TempMapped = Some(wctx.backup) /\ Slot511 = wctx.backup)
    /\ (pc = "with:unmap" /\ fatal = "none") =>
           (TempMapped = Some(wctx.backup) /\ Slot511 = wctx.backup /\ tlb = << >>)
    /\ (last.op = "with" /\ fatal = "none") =>
           /\ pc = "idle"
           /\ wctx.backup = FrameContaining(cr3)
           /\ Slot511 = wctx.backup
           /\ TempMapped = None
           /\ TlbCoherent

\* with returned, after f had mapped a page in the inactive table
WithReturned ==
    /\ last.op = "with" /\ fatal = "none"
    /\ last.prev.op = "with:flush_all2"
    /\ wctx.fmapped # {}
    /\ wctx.table \in inactive /\ wctx.table # wctx.backup

\* C7 as stated: whenever the kernel is out of f, by a return or by a panic,
\* slot 511 of the active P4 points to the original root again
RestoredOnEveryExit ==
    (pc = "with:f" /\ fatal # "none") => Slot511 = wctx.backup

\* C8: from the call of with to its return CR3 is not written and the MMU
\* translates the pages calls are made with as before the call, whatever f
\* maps and unmaps; when with has returned, every page f mapped (and did
\* not unmap) is translated by the inactive table
WithLeavesActive ==
    /\ pc # "idle" =>
           (cr3 = FrameStart(wctx.backup) /\ Snapshot = wctx.before)
    /\ (last.op = "with" /\ fatal = "none") =>
           /\ cr3 = FrameStart(wctx.backup)
           /\ Snapshot = wctx.before
           /\ \A p \in wctx.fmapped :
                  IsSome(Walk(mem, wctx.table, Indices(p), 1))

\* f mapped a page that the active table does not map, and with returned
WithMappedInactiveOnly ==
    /\ last.op = "with" /\ fatal = "none"
    /\ VgaPage \in wctx.fmapped
    /\ wctx.before[VgaPage] = None
    /\ IsSome(Walk(mem, wctx.table, Indices(VgaPage), 1))
(***************************************************************************)
(* SpecBoot: the paging bootstrap, init (paging/mod.rs), statement by      *)
(* statement, on the table the boot code left                              *)
(***************************************************************************)
\* ELF sections in the boot information
MaxSections == 2
\* frames the allocator starts with: what a run of init through all its
\* statements takes, for every boot information drawn
MaxBootPool == 12
\* pages of the heap
HeapPages == 2

\* heap_allocator::HEAP_START and HEAP_SIZE
HEAP_START == U(\h40000000)
HEAP_SIZE == HeapPages * PAGE_SIZE

\* the ELF sections a boot information is made of: two loaded and page
\* aligned, one that is not loaded, one loaded and not page aligned, one
\* loaded over the VGA buffer
Sections ==
    { [start |-> U(\h100000), end |-> U(\h102000), flags |-> {"ALLOCATED", "EXECUTABLE"}],
      [start |-> U(\h200000), end |-> U(\h200800), flags |-> {"ALLOCATED", "WRITABLE"}],
      [start |-> U(\h300800), end |-> U(\h300900), flags |-> {}],
      [start |-> U(\h400800), end |-> U(\h401000), flags |-> {"ALLOCATED"}],
      [start |-> U(\hb8000), end |-> U(\hb9000), flags |-> {"ALLOCATED", "WRITABLE"}] }

\* the sequences of up to n sections, none twice
RECURSIVE SectionSeqs(_)
SectionSeqs(n) ==
    IF n = 0 THEN { << >> }
    ELSE Let(SectionSeqs(n - 1), LAMBDA S :
             S \cup { Append(q, x) : q \in S, x \in Sections })

\* the boot informations init is run with: the ELF sections tag, which may be
\* missing, and the addresses of the multiboot structure itself
BootInfos ==
    { [elf_sections_tag |-> tag, start_address |-> U(\h9000), end_address |-> U(\h9100)] :
          tag \in {None} \cup
                  { Some(q) : q \in { q \in SectionSeqs(MaxSections) :
                                          \A i, j \in DOMAIN q : q[i] = q[j] => i = j } } }

\* what the read through the null pointer may give, when it gives anything
StackAllocators == { RangeInclusive(U(0), U(0)), RangeInclusive(U(1), U(0)) }

\* section.is_allocated()
IsAllocated(section) == "ALLOCATED" \in section.flags

\* EntryFlags::from_elf_section_flags
FromElfSectionFlags(section) ==
    (IF "ALLOCATED" \in section.flags THEN {"PRESENT"} ELSE {})
    \cup (IF "WRITABLE" \in section.flags THEN {"WRITABLE"} ELSE {})
    \cup (IF "EXECUTABLE" \notin section.flags THEN {"NO_EXECUTE"} ELSE {})

\* Frame::range_inclusive over the frames of the addresses start .. end - 1
FrameRange(start, end) ==
    RangeInclusive(FrameContaining(start), FrameContaining(Sub(end, U(1))))

\* a statement whose value, a MapperFlush, is not used: the token is dropped
\* at the end of the statement
Discarded(s) == IF Ok(s) THEN MapperFlushDrop(s) ELSE s

\* init's locals before its first statement
Locals(info, frames) ==
    [info |-> info, frames |-> frames, stack_allocator |-> Nil, new_table |-> Nil,
     backup |-> Nil, sections |-> Nil, flags |-> Nil, it |-> Nil, old_table |-> Nil,
     heap |-> Nil]

\* the outcome of a statement: the machine, the locals, the next statement
Outcome(s, b, at, then) == [s |-> s, b |-> b, pc |-> IF Ok(s) THEN then ELSE at]

\* :246  the StackAllocator is read through a null pointer: the read faults
\* or gives whatever is at address 0
InitReadNull(s, b, at) ==
    { Outcome(Fail(s, "page fault"), b, at, at) }
    \cup { Outcome(s, [b EXCEPT !.stack_allocator = g], at, "init:251") :
               g \in StackAllocators }

\* :248-253  the frame for the new P4 and InactivePageTable::new
InitNewTable(s, b, at) ==
    Let(AllocateFrames(s), LAMBDA a :
        IF a.frame = None THEN Outcome(Fail(a.s, "out of memory"), b, at, at)
        ELSE Outcome(InactiveNew(a.s, a.frame.v, TempPage),
                     [b EXCEPT !.new_table = a.frame.v], at, "init:169"))

\* :259-261  the ELF sections tag
InitSectionsTag(s, b, at) ==
    IF b.info.elf_sections_tag = None
    THEN Outcome(Fail(s, "Memory map tag required"), b, at, at)
    ELSE Outcome(s, [b EXCEPT !.sections = b.info.elf_sections_tag.v], at, "init:264")

\* :264-287  the next section: one that is not loaded is passed over, one
\* that is must be page aligned, and its frames are iterated
InitNextSection(s, b, at) ==
    IF b.sections = << >>
    THEN Outcome(s, b, at, "init:296")
    ELSE Let(Head(b.sections), LAMBDA section :
         Let([b EXCEPT !.sections = Tail(@)], LAMBDA b1 :
             IF ~ IsAllocated(section) THEN Outcome(s, b1, at, "init:264")
             ELSE IF Mod(section.start, PAGE_SIZE) # 0
             THEN Outcome(Fail(s, "sections need to be page aligned"), b1, at, at)
             ELSE Outcome(s, [b1 EXCEPT !.flags = FromElfSectionFlags(section),
                                        !.it = FrameRange(section.start, section.end)],
                          at, "init:288")))

\* :288-290 and :304-306  mapper.identity_map(frame, flags); for the next frame
InitIdentityMapNext(s, b, flags, at, then) ==
    Let(IterNext(b.it), LAMBDA x :
        IF x.r = None THEN Outcome(s, b, at, then)
        ELSE Outcome(Discarded(IdentityMap(s, x.r.v, flags)),
                     [b EXCEPT !.it = x.it], at, at))

\* :295-303  the VGA text buffer, and the frames of the multiboot structure
InitVga(s, b, at) ==
    Outcome(Discarded(IdentityMap(s, FrameContaining(U(\hb8000)), {"WRITABLE"})),
            [b EXCEPT !.it = FrameRange(b.info.start_address, b.info.end_address)],
            at, "init:304")

\* :311-312  the pages of the heap
InitHeapRange(s, b, at) ==
    Outcome(s, [b EXCEPT !.it = RangeInclusive(
                                    ContainingAddress(HEAP_START),
                                    ContainingAddress(Sub(Add(HEAP_START, U(HEAP_SIZE)),
                                                          U(1))))],
            at, "init:316")

\* :316-318  mapper.map(page, EntryFlags::WRITABLE); for the next page
InitMapHeapNext(s, b, at) ==
    Let(IterNext(b.it), LAMBDA x :
        IF x.r = None THEN Outcome(s, b, at, "init:331")
        ELSE Outcome(Discarded(Map(s, x.r.v, {"WRITABLE"})),
                     [b EXCEPT !.it = x.it], at, at))

\* :330-332  HEAP_ALLOCATOR.init(HEAP_START, HEAP_SIZE): the heap allocator is
\* given the region
InitHeapAllocator(s, b, at) ==
    Outcome(s, [b EXCEPT !.heap = [start |-> HEAP_START, size |-> HEAP_SIZE]],
            at, "init:335")

\* :335-342  the StackAllocator over the 101 pages after the heap
InitStackAllocator(s, b, at) ==
    Let(PageAdd(ContainingAddress(Sub(Add(HEAP_START, U(HEAP_SIZE)), U(1))), 1),
        LAMBDA stack_alloc_start :
            Outcome(s, [b EXCEPT !.stack_allocator =
                                     RangeInclusive(stack_alloc_start,
                                                    PageAdd(stack_alloc_start, 100))],
                    at, "init:186"))

\* :345  switch to the new table
InitSwitch(s, b, at) ==
    Let(Switch(s, b.new_table), LAMBDA r :
        Outcome(r.s, [b EXCEPT !.old_table = r.old_table], at, "init:351"))

\* :351-355  the page of the old P4 is unmapped
InitUnmapOld(s, b, at) ==
    Outcome(Discarded(Unmap(s, ContainingAddress(FrameStart(b.old_table)))),
            b, at, "init:362")

\* the statement of init at `at`: the outcomes it may have
InitStatement(s, b, at) ==
    CASE at = "init:246" -> InitReadNull(s, b, at)
      [] at = "init:251" -> { InitNewTable(s, b, at) }
      [] at = "init:169" ->
             { Outcome(WithMapBackup(s, TempPage),
                       [b EXCEPT !.backup = FrameContaining(s.cr3)], at, "init:176") }
      [] at = "init:176" -> { Outcome(WithOverwrite(s, b.new_table), b, at, "init:180") }
      [] at = "init:180" -> { Outcome(WithFlushAll(s), b, at, "init:259") }
      [] at = "init:259" -> { InitSectionsTag(s, b, at) }
      [] at = "init:264" -> { InitNextSection(s, b, at) }
      [] at = "init:288" -> { InitIdentityMapNext(s, b, b.flags, at, "init:264") }
      [] at = "init:296" -> { InitVga(s, b, at) }
      [] at = "init:304" -> { InitIdentityMapNext(s, b, {"PRESENT"}, at, "init:311") }
      [] at = "init:311" -> { InitHeapRange(s, b, at) }
      [] at = "init:316" -> { InitMapHeapNext(s, b, at) }
      [] at = "init:331" -> { InitHeapAllocator(s, b, at) }
      [] at = "init:335" -> { InitStackAllocator(s, b, at) }
      [] at = "init:186" -> { Outcome(WithRestore(s, TempPage, b.backup), b, at, "init:187") }
      [] at = "init:187" -> { Outcome(WithFlushAll(s), b, at, "init:190") }
      [] at = "init:190" -> { Outcome(TempUnmap(s, TempPage), b, at, "init:345") }
      [] at = "init:345" -> { InitSwitch(s, b, at) }
      [] at = "init:351" -> { InitUnmapOld(s, b, at) }
      [] at = "init:362" -> { Outcome(s, b, at, "init:returned") }
      [] OTHER -> {}

\* init is entered on the table the boot code left
InitBoot ==
    \E info \in BootInfos, k \in 0 .. MaxBootPool :
        /\ cr3 = BootMachine.cr3
        /\ mem = BootMachine.mem
        /\ free = Pool(k)
        /\ tlb = << >>
        /\ fatal = "none"
        /\ tokens = << >>
        /\ flushAll = NoFlushAll
        /\ inactive = {}
        /\ pc = "init:246"
        /\ wctx = NoWith
        /\ range = RangeInclusive(U(1), U(0))
        /\ stacks = {}
        /\ boot = Locals(info, k)
        /\ kernel = Nil
        /\ last = [op |-> "boot", page |-> Nil, arg |-> Nil, res |-> Nil,
                   prev |-> [op |-> "none", page |-> Nil],
                   prev2 |-> [op |-> "none", page |-> Nil]]

\* init runs its next statement
InitStep ==
    /\ Running
    /\ \E r \in InitStatement(Cur, boot, pc) :
           /\ Commit(r.s)
           /\ boot' = r.b
           /\ pc' = r.pc
           /\ last' = Did(pc, Nil, Nil, Nil)
    /\ UNCHANGED << tokens, flushAll, inactive, wctx, range, stacks, kernel >>

NextBoot == InitStep

SpecBoot == InitBoot /\ [][NextBoot]_vars

\* the frames of a section, and a boot information whose loaded sections are
\* page aligned and share no frame with each other, with the VGA buffer or
\* with the multiboot structure
FramesOf(start, end) ==
    Let(FrameContaining(start), LAMBDA first :
        { Add(first, U(i)) :
              i \in 0 .. Int32(Sub(FrameContaining(Sub(end, U(1))), first)) })
Regions(info) ==
    { << "section", i >> : i \in { i \in DOMAIN info.elf_sections_tag.v :
                                       IsAllocated(info.elf_sections_tag.v[i]) } }
    \cup { << "vga", 0 >>, << "multiboot", 0 >> }
RegionFrames(info, r) ==
    CASE r[1] = "section" -> FramesOf(info.elf_sections_tag.v[r[2]].start,
                                      info.elf_sections_tag.v[r[2]].end)
      [] r[1] = "vga" -> { FrameContaining(U(\hb8000)) }
      [] r[1] = "multiboot" -> FramesOf(info.start_address, info.end_address)
WellFormed(info) ==
    /\ IsSome(info.elf_sections_tag)
    /\ \A i \in DOMAIN info.elf_sections_tag.v :
           IsAllocated(info.elf_sections_tag.v[i]) =>
               Mod(info.elf_sections_tag.v[i].start, PAGE_SIZE) = 0
    /\ \A r1, r2 \in Regions(info) :
           r1 # r2 => RegionFrames(info, r1) \cap RegionFrames(info, r2) = {}

\* C10 as stated: on a well-formed boot information and with enough free
\* frames init reaches no fatal state (the read through the null pointer at
\* line 246 taken to have given a value)
InitCompletes ==
    (/\ WellFormed(boot.info)
     /\ boot.frames = MaxBootPool
     /\ boot.stack_allocator # Nil) => fatal = "none"

(***************************************************************************)
(* What init leaves behind                                                 *)
(***************************************************************************)
\* the P1 entry of the page with indices h in the tables under root, Zero
\* when a table on the way is missing
LeafEntry(m, root, h) ==
    Let(ReadEntry(m, root, h[1]), LAMBDA e4 :
    Let(ReadEntry(m, e4.frame, h[2]), LAMBDA e3 :
    Let(ReadEntry(m, e3.frame, h[3]), LAMBDA e2 :
        IF /\ "PRESENT" \in e4.flags /\ "PRESENT" \in e3.flags /\ "PRESENT" \in e2.flags
           /\ "HUGE_PAGE" \notin e3.flags /\ "HUGE_PAGE" \notin e2.flags
        THEN ReadEntry(m, e2.frame, h[4])
        ELSE Zero)))

\* the frame the MMU translates a page to, and the page's entry, under the
\* table in CR3
ActiveFrame(page) == Walk(mem, FrameContaining(cr3), Indices(page), 1)
ActiveEntry(page) == LeafEntry(mem, FrameContaining(cr3), Indices(page))

\* init is over: it returned, or the kernel halted in it
InitOver == pc = "init:returned" \/ fatal # "none"

\* init was given a well-formed boot information and enough frames, the read
\* at line 246 gave a value, and init is over
Bootstrapped ==
    /\ WellFormed(boot.info)
    /\ boot.frames = MaxBootPool
    /\ boot.stack_allocator # Nil
    /\ InitOver

\* C11 as stated: when init is over, every page of a loaded, page aligned and
\* writable ELF section is translated by the active table to the frame of
\* its own number, its entry writable, and no page of a section that is not
\* loaded is mapped
SectionsIdentityMapped ==
    Bootstrapped =>
        \A i \in DOMAIN boot.info.elf_sections_tag.v :
            Let(boot.info.elf_sections_tag.v[i], LAMBDA section :
                \A f \in FramesOf(section.start, section.end) :
                    /\ (IsAllocated(section) /\ "WRITABLE" \in section.flags) =>
                           /\ ActiveFrame(IdentityPage(f)) = Some(f)
                           /\ "WRITABLE" \in ActiveEntry(IdentityPage(f)).flags
                    /\ ~ IsAllocated(section) =>
                           ActiveFrame(IdentityPage(f)) = None)

\* the pages of the heap
HeapPageSet ==
    { PageAdd(ContainingAddress(HEAP_START), i) : i \in 0 .. HeapPages - 1 }

\* C12 as stated: when init is over, every page of the heap is mapped
\* writable in the active table, each to a frame of its own that the frame
\* allocator gave out, and the heap allocator was given (HEAP_START, HEAP_SIZE)
HeapMapped ==
    Bootstrapped =>
        /\ \A page \in HeapPageSet :
               /\ IsSome(ActiveFrame(page))
               /\ "WRITABLE" \in ActiveEntry(page).flags
               /\ ActiveFrame(page).v \in Pool(MaxBootPool) \ free
        /\ \A p, q \in HeapPageSet : p # q => ActiveFrame(p) # ActiveFrame(q)
        /\ boot.heap = [start |-> HEAP_START, size |-> HEAP_SIZE]

\* C13 as stated: when init is over, it has switched to the new table and
\* the page whose number is the old P4 frame's is not translated by it
OldRootIsGuardPage ==
    Bootstrapped =>
        /\ boot.old_table # Nil
        /\ cr3 = FrameStart(boot.new_table)
        /\ ActiveFrame(ContainingAddress(FrameStart(boot.old_table))) = None

(***************************************************************************)
(* The assertions of map_to and unmap (checked under Spec)                 *)
(***************************************************************************)
MapCalls == {"map_to", "map", "identity_map"}
AssertUnused == "assertion failed: p1[page.p1_index()].is_unused()"

\* C14: a call of map_to, map or identity_map on a page whose P1 entry is in
\* use ends in the assertion of map_to and leaves the entry as it was (map
\* with no frame left halts before it calls map_to, the entry as it was); on a
\* page whose entry is unused a call that returns has set the entry to the
\* frame (for map, the frame it allocated) with the flags given and PRESENT
MapToAssertsUnused ==
    [][(last' # last /\ last'.op \in MapCalls) =>
          IF ~ IsUnused(ActiveEntry(last'.page))
          THEN /\ fatal' = IF last'.op = "map" /\ free = {}
                          THEN "out of memory" ELSE AssertUnused
               /\ LeafEntry(mem', FrameContaining(cr3'), Indices(last'.page))
                      = ActiveEntry(last'.page)
          ELSE /\ fatal' # AssertUnused
               /\ fatal' = "none" =>
                      LeafEntry(mem', FrameContaining(cr3'), Indices(last'.page)) =
                          EntrySet(IF last'.op = "map" THEN MinFrame(free) ELSE last'.arg,
                                   last'.res \cup {"PRESENT"})]_vars

\* map was called on a page that map_to had mapped: the kernel halted in the
\* assertion, the entry still that of map_to
MapOnMappedPage ==
    /\ last.op = "map" /\ fatal = AssertUnused
    /\ last.prev2 = [op |-> "map_to", page |-> last.page]
    /\ ActiveEntry(last.page).frame \in Frames

AssertMapped == "assertion failed: self.translate(page.start_address()).is_some()"

\* C15: unmap of a page the active table does not translate, one that was
\* never mapped or one that was unmapped, ends in the assertion of unmap and
\* changes no entry of any table; so the second of two calls of unmap on a
\* page halts the kernel
UnmapAssertsMapped ==
    [][(last' # last /\ last'.op = "unmap" /\ ActiveFrame(last'.page) = None) =>
          (fatal' = AssertMapped /\ mem' = mem)]_vars

\* unmap was called on a page a second time, the token of the first call
\* consumed in between, and halted the kernel
UnmapTwice ==
    /\ last.op = "unmap" /\ fatal = AssertMapped
    /\ last.prev.op \in {"flush", "ignore"}
    /\ last.prev2 = [op |-> "unmap", page |-> last.page]

(***************************************************************************)
(* SpecPage: a kernel that makes Pages of addresses and asks for their     *)
(* start addresses                                                         *)
(***************************************************************************)
\* Page::containing_address with its assertion: [s, r], r the Page
PageContainingAddress(s, address) ==
    IF ~ Ok(s) THEN [s |-> s, r |-> Panic]
    ELSE IF ~ (\/ Lt(address, W16(0, \h8000, 0, 0))
               \/ Le(W16(\hffff, \h8000, 0, 0), address))
    THEN [s |-> Fail(s, "invalid address"), r |-> Panic]
    ELSE [s |-> s, r |-> Some(Div(address, PAGE_SIZE))]

\* the addresses Pages are made of: around 0, the VGA buffer, both ends of
\* the hole of non-canonical addresses, the middle of it and the top of the
\* address space, at the offsets around a page boundary
AddressBases ==
    { U(0), U(\hb8000),
      W16(0, \h7fff, \hffff, \he000), W16(0, \h8000, 0, 0),
      W16(\h1234, \h5678, \h9abc, \hd000),
      W16(\hffff, \h7fff, \hffff, \he000), W16(\hffff, \h8000, 0, 0),
      W16(\hffff, \hffff, \hffff, \he000) }
AddressOffsets == { 0, 1, PAGE_SIZE - 1, PAGE_SIZE, 2 * PAGE_SIZE - 1 }
AddressInputs == { Add(b, U(o)) : b \in AddressBases, o \in AddressOffsets }

CallContainingAddress(address) ==
    /\ Running /\ pc = "idle"
    /\ \E x \in {PageContainingAddress(Cur, address)} :
           /\ Commit(x.s)
           /\ last' = Did("containing_address",
                          IF IsSome(x.r) THEN x.r.v ELSE Nil, address, x.r)
    /\ UNCHANGED << tokens, flushAll, inactive, pc, wctx, range, stacks, boot, kernel >>

\* start_address of the Page containing_address returned
CallStartAddress ==
    /\ Running /\ pc = "idle"
    /\ last.op = "containing_address"
    /\ last' = Did("start_address", last.page, last.arg, StartAddress(last.page))
    /\ UNCHANGED << cr3, mem, free, tlb, fatal, tokens, flushAll, inactive, pc,
                    wctx, range, stacks, boot, kernel >>

NextPage ==
    \/ \E a \in AddressInputs : CallContainingAddress(a)
    \/ CallStartAddress

SpecPage == Init /\ [][NextPage]_vars

\* an address of the hole between the two canonical halves, and an address
\* with its low twelve bits cleared
InHole(v) == Le(W16(0, \h8000, 0, 0), v) /\ Lt(v, W16(\hffff, \h8000, 0, 0))
RoundedDown(v) == [i \in 1 .. 8 |-> IF i = 1 THEN 0
                                    ELSE IF i = 2 THEN v[2] - (v[2] % 16)
                                    ELSE v[i]]

\* C16: Page::containing_address(v) halts the kernel exactly when v is not
\* canonical; when it returns, the start_address() of the page is v rounded
\* down to a multiple of PAGE_SIZE
ContainingAddressRoundsDown ==
    /\ last.op = "containing_address" =>
           /\ (last.res = Panic) <=> InHole(last.arg)
           /\ (fatal = "invalid address") <=> InHole(last.arg)
    /\ last.op = "start_address" =>
           /\ ~ InHole(last.arg)
           /\ last.res = RoundedDown(last.arg)

\* the start address of the page of the last address below the hole, which
\* is not on a page boundary
RoundedBelowHole ==
    /\ last.op = "start_address" /\ fatal = "none"
    /\ last.arg = W16(0, \h7fff, \hffff, \hffff)
    /\ last.res = W16(0, \h7fff, \hffff, \hf000)

(***************************************************************************)
(* SpecHuge: a kernel that translates addresses under boot tables with     *)
(* huge pages                                                              *)
(***************************************************************************)
\* what the boot code may have put in entry 0 of a table: nothing, the next
\* table, a huge page on an aligned frame, one on a misaligned frame, or the
\* HUGE_PAGE flag on an entry that is not present
EntryKinds == {"none", "table", "huge", "misaligned", "not_present"}

\* an entry of a kind: next the frame of the next table, big the frame of the
\* huge page and off what a misaligned one is off by
EntryOfKind(kind, next, big, off) ==
    CASE kind = "none" -> Zero
      [] kind = "table" -> EntrySet(next, {"PRESENT", "WRITABLE"})
      [] kind = "huge" -> EntrySet(big, {"PRESENT", "WRITABLE", "HUGE_PAGE"})
      [] kind = "misaligned" ->
             EntrySet(Add(big, U(off)), {"PRESENT", "WRITABLE", "HUGE_PAGE"})
      [] kind = "not_present" -> EntrySet(big, {"HUGE_PAGE"})

\* the boot tables: P4[0] -> P3 in frame 2, whose entry 0 is of kind k3 (a
\* 1GiB page or the P2 in frame 3), P2[0] of kind k2 (a 2MiB page or the P1
\* in frame 4), P1[0] the 4KiB page of frame 0xb8 or nothing
HugeTables(k3, k2, k1) ==
    WriteEntry(
        WriteEntry(
            WriteEntry(
                WriteEntry(BootMachine.mem, BootRoot, 0,
                           EntrySet(U(2), {"PRESENT", "WRITABLE"})),
                U(2), 0, EntryOfKind(k3, U(3), U(ENTRY_COUNT * ENTRY_COUNT), ENTRY_COUNT)),
            U(3), 0, EntryOfKind(k2, U(4), U(2 * ENTRY_COUNT), 1)),
        U(4), 0, EntryOfKind(k1, U(\hb8), U(0), 0))

InitHuge ==
    /\ \E k3, k2 \in EntryKinds, k1 \in {"none", "table"} :
           Start([BootMachine EXCEPT !.mem = HugeTables(k3, k2, k1)])
    /\ range = RangeInclusive(U(1), U(0))

\* the addresses translated: in the first page, in the fourth page of the
\* first 2MiB, and in the second 2MiB of the first GiB
HugeAddresses == { U(0), U(\h3001), U(\h205000) }

CallTranslate(address) ==
    /\ Running /\ pc = "idle"
    /\ \E x \in {Translate(Cur, address)} :
           /\ Commit(x.s)
           /\ last' = Did("translate", ContainingAddress(address), address, x.r)
    /\ UNCHANGED << tokens, flushAll, inactive, pc, wctx, range, stacks, boot, kernel >>

NextHuge == \E a \in HugeAddresses : CallTranslate(a)

SpecHuge == InitHuge /\ [][NextHuge]_vars

\* the entries of a page at P3, P2 and P1 in the tables under CR3 (Zero
\* below an entry that is not a table), and whether an entry is a huge page
TableEntry(e) == "PRESENT" \in e.flags /\ "HUGE_PAGE" \notin e.flags
HugeEntry(e) == "PRESENT" \in e.flags /\ "HUGE_PAGE" \in e.flags
P3Entry(page) ==
    Let(ReadEntry(mem, FrameContaining(cr3), P4Index(page)), LAMBDA e4 :
        IF TableEntry(e4) THEN ReadEntry(mem, e4.frame, P3Index(page)) ELSE Zero)
P2Entry(page) ==
    IF TableEntry(P3Entry(page))
    THEN ReadEntry(mem, P3Entry(page).frame, P2Index(page)) ELSE Zero
P1Entry(page) ==
    IF TableEntry(P2Entry(page))
    THEN ReadEntry(mem, P2Entry(page).frame, P1Index(page)) ELSE Zero

\* the frame translate is to give for a page: that of the 4KiB entry; else
\* that of a 1GiB or 2MiB entry on an aligned frame, a panic on a misaligned
\* one; else None
HugeFrame(page) ==
    IF "PRESENT" \in P1Entry(page).flags THEN Some(P1Entry(page).frame)
    ELSE IF HugeEntry(P3Entry(page))
    THEN IF Mod(P3Entry(page).frame, ENTRY_COUNT * ENTRY_COUNT) = 0
         THEN Some(Add(P3Entry(page).frame,
                       U(P2Index(page) * ENTRY_COUNT + P1Index(page))))
         ELSE Panic
    ELSE IF HugeEntry(P2Entry(page))
    THEN IF Mod(P2Entry(page).frame, ENTRY_COUNT) = 0
         THEN Some(Add(P2Entry(page).frame, U(P1Index(page))))
         ELSE Panic
    ELSE None

\* C17: where there is no 4KiB entry translate gives the address in the
\* 1GiB page of a present HUGE_PAGE entry at P3 whose frame number is
\* divisible by 512 * 512 (frame + p2_index * 512 + p1_index), or in the 2MiB
\* page of one at P2 whose frame number is divisible by 512 (frame +
\* p1_index); on a misaligned frame number it halts the kernel in the
\* assertion; with no huge entry it returns None
TranslateHugePages ==
    last.op = "translate" =>
        Let(HugeFrame(last.page), LAMBDA frame :
            /\ (fatal # "none") <=> (frame = Panic)
            /\ frame = Panic =>
                   /\ last.res = Panic
                   /\ fatal \in {"assertion failed: 1GiB aligned",
                                 "assertion failed: 2MiB aligned"}
            /\ frame = None => last.res = None
            /\ IsSome(frame) =>
                   last.res = Some(Add(FrameStart(frame.v),
                                       U(Mod(last.arg, PAGE_SIZE)))))

\* an address of the fourth page of a 2MiB page was translated
TranslatedThrough2MiB ==
    /\ last.op = "translate" /\ fatal = "none"
    /\ HugeEntry(P2Entry(last.page)) /\ P1Index(last.page) = 3
    /\ last.res = Some(Add(FrameStart(U(2 * ENTRY_COUNT + 3)), U(1)))

(***************************************************************************)
(* The recursive mapping (checked under SpecWith)                          *)
(***************************************************************************)
\* slot 511 of the P4 in a frame points to the frame
SelfMapped(frame) ==
    /\ ReadEntry(mem, frame, 511).frame = frame
    /\ "PRESENT" \in ReadEntry(mem, frame, 511).flags

\* C18: slot 511 of the P4 frame of every InactivePageTable the kernel holds,
\* one that InactivePageTable::new or switch returned, points to that frame,
\* before, during and after the calls of with on it; when
\* InactivePageTable::new has returned, slot 511 is the only entry of the
\* frame that is not zero
InactiveSelfMapped ==
    /\ \A t \in inactive : SelfMapped(t)
    /\ (last.op = "new" /\ fatal = "none") =>
           (last.arg \in inactive /\ DOMAIN mem[last.arg] = {511})

\* switch returned a table that with had been called on, f mapping a page in it
SwitchReturnedWithTable ==
    /\ last.op = "switch" /\ fatal = "none"
    /\ last.res = wctx.table /\ wctx.fmapped # {}
    /\ last.res \in inactive /\ last.res # BootRoot
    /\ DOMAIN mem[last.res] # {511}

(***************************************************************************)
(* SpecRoot: the kernel of SpecWith, which also identity-maps the frame of *)
(* the boot P4 in the tables it makes and, having switched, unmaps the     *)
(* page of the old root                                                    *)
(***************************************************************************)
\* the page whose number is the boot P4 frame's
RootPage == IdentityPage(BootRoot)

NextRoot ==
    \/ CallNew
    \/ \E t \in inactive : CallSwitch(t)
    \/ \E t \in inactive : CallWith(t)
    \/ WithStepOverwrite
    \/ WithStepFlushAll
    \/ pc = "with:f" /\ CallIdentityMap(BootRoot, {"WRITABLE"})
    \/ pc = "with:f" /\ CallUnmap(RootPage)
    \/ WithFReturn
    \/ WithStepRestore
    \/ WithStepFlushAll2
    \/ WithStepUnmap
    \/ pc = "idle" /\ CallUnmap(RootPage)
    \/ TokenCalls

SpecRoot == InitWith /\ [][NextRoot]_vars

\* C19: whenever the kernel is not in with, slot 511 of the P4 in the frame
\* CR3 holds points to that frame, and the recursive address of the P4
\* leads the MMU to it, by the tables and by the TLB; through
\* InactivePageTable::new, with, switch and the unmap of the old root's
\* page in any order
ActiveSelfMapped ==
    pc = "idle" =>
        /\ SelfMapped(FrameContaining(cr3))
        /\ Walk(mem, FrameContaining(cr3), P4, 1) = Some(FrameContaining(cr3))
        /\ P4 \in DOMAIN tlb => tlb[P4] = FrameContaining(cr3)

\* the kernel switched to a table it made and unmapped the page of the old
\* root, which f had identity-mapped in that table
OldRootUnmapped ==
    /\ last.op = "unmap" /\ last.page = RootPage
    /\ pc = "idle" /\ fatal = "none"
    /\ cr3 # FrameStart(BootRoot) /\ BootRoot \in inactive

(***************************************************************************)
(* SpecTlb: the kernel of Spec, which also reads and writes the pages it   *)
(* has mapped, so that the TLB holds their translations                    *)
(***************************************************************************)
\* the kernel accesses an address of page: the MMU takes the translation
\* from the TLB or walks the tables under CR3 and caches what it finds
Touch(page) ==
    /\ Running /\ pc = "idle"
    /\ Commit(Access(Cur, Indices(page)))
    /\ last' = Did("touch", page, Nil, Nil)
    /\ UNCHANGED << tokens, flushAll, inactive, pc, wctx, range, stacks, boot, kernel >>

NextTlb ==
    \/ MapperCalls(Pages, {VgaFrame}, {{"WRITABLE"}})
    \/ TokenCalls
    \/ \E p \in Pages : Touch(p)

SpecTlb == Init /\ [][NextTlb]_vars

\* the TLB without the translation of page
TlbWithout(page) ==
    [h \in DOMAIN tlb \ {Indices(page)} |-> tlb[h]]

\* C20: when unmap returns the TLB holds no translation of its page, and
\* ignoring the token leaves the TLB as it is; map_to, map and identity_map
\* take no translation out of the TLB, and flushing the token they return
\* takes out the translation of their page and no other
UnmapFlushesTlb ==
    [][/\ (last'.op = "unmap" /\ fatal' = "none") =>
              /\ Indices(last'.page) \notin DOMAIN tlb'
              /\ \A h \in DOMAIN tlb \ {Indices(last'.page)} :
                     h \in DOMAIN tlb' /\ tlb'[h] = tlb[h]
       /\ last'.op \in MapCalls =>
              \A h \in DOMAIN tlb : h \in DOMAIN tlb' /\ tlb'[h] = tlb[h]
       /\ last'.op = "ignore" => tlb' = tlb
       /\ last'.op = "flush" => tlb' = TlbWithout(last'.page)]_vars

\* unmap returned for a page the kernel had just accessed, whose translation
\* the TLB held
UnmappedCachedPage ==
    /\ last.op = "unmap" /\ fatal = "none"
    /\ last.prev.op = "touch" /\ last.prev.page = last.page

(***************************************************************************)
(* What unmap leaves as it was (checked under SpecTlb)                     *)
(***************************************************************************)
\* the P4, P3 and P2 entries on the way to the page of indices h, in the
\* tables under root, all point to a table
PathPresent(m, root, h) ==
    Let(ReadEntry(m, root, h[1]), LAMBDA e4 :
    Let(ReadEntry(m, e4.frame, h[2]), LAMBDA e3 :
        /\ TableEntry(e4) /\ TableEntry(e3)
        /\ TableEntry(ReadEntry(m, e3.frame, h[3]))))

\* C21: a call of unmap that returns has cleared the P1 entry of its page and
\* changed no other entry of any table; the allocator's free frames and CR3
\* are as before, and the P4, P3 and P2 entries on the way to the page still
\* point to their tables
UnmapChangesP1EntryOnly ==
    [][(last'.op = "unmap" /\ fatal' = "none") =>
          /\ free' = free
          /\ cr3' = cr3
          /\ mem' = WriteEntry(mem, P2Entry(last'.page).frame,
                               P1Index(last'.page), Zero)
          /\ PathPresent(mem', FrameContaining(cr3'), Indices(last'.page))]_vars

\* unmap returned and left the P1 table of its page without an entry in use,
\* the table still in its place and the frame the page had not with the
\* allocator
UnmapLeftEmptyTable ==
    /\ last.op = "unmap" /\ fatal = "none"
    /\ PathPresent(mem, FrameContaining(cr3), Indices(last.page))
    /\ DOMAIN mem[P2Entry(last.page).frame] = {}
    /\ last.prev2.op = "map" /\ last.prev2.page = last.page
    /\ Cardinality(free) < MaxFrames

(***************************************************************************)
(* The order of the bootstrap (checked under SpecBoot)                     *)
(***************************************************************************)
\* the frame the table of init's new_table gives for page
NewTableFrame(page) == Walk(mem, boot.new_table, Indices(page), 1)

\* the statements of the closure that follow the identity map of the VGA
\* frame, and those that follow the identity maps of the boot information
AfterVga == {"init:304", "init:311", "init:316", "init:331", "init:335"}
AfterBootInfo == {"init:311", "init:316", "init:331", "init:335"}

\* the steps in their order, on the states init goes through: past a step,
\* what the steps before it did is in the new table or in init's locals
StepsInOrder ==
    /\ pc \in AfterVga =>
           /\ NewTableFrame(VgaPage) = Some(VgaFrame)
           /\ \A i \in DOMAIN boot.info.elf_sections_tag.v :
                  Let(boot.info.elf_sections_tag.v[i], LAMBDA section :
                      IsAllocated(section) =>
                          \A f \in FramesOf(section.start, section.end) :
                              NewTableFrame(IdentityPage(f)) = Some(f))
    /\ pc \in AfterBootInfo =>
           \A f \in FramesOf(boot.info.start_address, boot.info.end_address) :
               NewTableFrame(IdentityPage(f)) = Some(f)
    /\ boot.heap # Nil =>
           \A page \in HeapPageSet : IsSome(NewTableFrame(page))
    /\ boot.old_table # Nil =>
           /\ boot.heap = [start |-> HEAP_START, size |-> HEAP_SIZE]
           /\ boot.stack_allocator =
                  RangeInclusive(PageAdd(ContainingAddress(HEAP_START), HeapPages),
                                 PageAdd(ContainingAddress(HEAP_START), HeapPages + 100))

\* C22 as stated: init goes through the identity maps of the sections, of
\* the VGA frame and of the boot information, the maps of the heap pages,
\* the initialisation of the heap allocator and the construction of the
\* stack allocator in this order, the heap allocator initialised only when
\* every heap page is mapped, and then switches
BootstrapInOrder ==
    /\ StepsInOrder
    /\ Bootstrapped =>
           /\ boot.heap # Nil
           /\ boot.old_table # Nil
           /\ cr3 = FrameStart(boot.new_table)

(***************************************************************************)
(* SpecKernel: the kernel's init (arch/x86_64/init/mod.rs), which turns    *)
(* interrupts off, sets the NXE and write-protect bits and calls the       *)
(* memory bootstrap, then the other initialisations                        *)
(***************************************************************************)
\* the stages of init
Stages == {"memory", "interrupts", "device", "acpi"}

\* interrupts::disable_interrupts() and enable_interrupts(): cli and sti
DisableInterrupts(k) == [k EXCEPT !.interrupts = FALSE]
EnableInterrupts(k) == [k EXCEPT !.interrupts = TRUE]

\* enable_nxe_bit: bit 11 of IA32_EFER is set
EnableNxeBit(k) == [k EXCEPT !.nxe = TRUE]

\* enable_write_protect_bit: WRITE_PROTECT of CR0 is set
EnableWriteProtectBit(k) == [k EXCEPT !.wp = TRUE]

\* a stage of init has returned
StageDone(k, stage) == [k EXCEPT !.done = @ \cup {stage}]

\* init with enable_interrupts() called before memory::init
KernelStatementEnablesEarly(k, at) ==
    CASE at = "arch_init:12" -> { [k |-> DisableInterrupts(k), pc |-> "arch_init:16"] }
      [] at = "arch_init:16" -> { [k |-> k, pc |-> "arch_init:22"] }
      [] at = "arch_init:22" -> { [k |-> EnableNxeBit(k), pc |-> "arch_init:23"] }
      [] at = "arch_init:23" -> { [k |-> EnableWriteProtectBit(k), pc |-> "arch_init:25"] }
      [] at = "arch_init:25" -> { [k |-> EnableInterrupts(k), pc |-> "init:246"] }
      [] at = "init:returned" -> { [k |-> StageDone(k, "memory"), pc |-> "arch_init:27"] }
      [] at = "arch_init:27" -> { [k |-> StageDone(k, "interrupts"), pc |-> "arch_init:31"] }
      [] at = "arch_init:31" -> { [k |-> StageDone(k, "device"), pc |-> "arch_init:34"] }
      [] at = "arch_init:34" -> { [k |-> StageDone(k, "acpi"), pc |-> "arch_init:36"] }
      [] at = "arch_init:36" -> { [k |-> k, pc |-> "arch_init:38"] }
      [] at = "arch_init:38" -> { [k |-> k, pc |-> "arch_init:returned"] }
      [] OTHER -> {}

\* the statement of the kernel's init at `at`: the flags and stages after
\* it, and the next statement; memory::init runs the paging bootstrap
KernelStatement(k, at) ==
    CASE at = "arch_init:12" -> { [k |-> DisableInterrupts(k), pc |-> "arch_init:16"] }
      [] at = "arch_init:16" -> { [k |-> k, pc |-> "arch_init:22"] }
      [] at = "arch_init:22" -> { [k |-> EnableNxeBit(k), pc |-> "arch_init:23"] }
      [] at = "arch_init:23" -> { [k |-> EnableWriteProtectBit(k), pc |-> "arch_init:25"] }
      [] at = "arch_init:25" -> { [k |-> k, pc |-> "init:246"] }
      [] at = "init:returned" -> { [k |-> StageDone(k, "memory"), pc |-> "arch_init:27"] }
      [] at = "arch_init:27" -> { [k |-> StageDone(k, "interrupts"), pc |-> "arch_init:31"] }
      [] at = "arch_init:31" -> { [k |-> StageDone(k, "device"), pc |-> "arch_init:34"] }
      [] at = "arch_init:34" -> { [k |-> StageDone(k, "acpi"), pc |-> "arch_init:36"] }
      [] at = "arch_init:36" -> { [k |-> EnableInterrupts(k), pc |-> "arch_init:38"] }
      [] at = "arch_init:38" -> { [k |-> k, pc |-> "arch_init:returned"] }
      [] OTHER -> {}

\* the kernel's init is entered from the boot code, which leaves the
\* interrupt flag and the two bits either way
InitKernel ==
    \E info \in BootInfos, n \in 0 .. MaxBootPool, i, x, w \in BOOLEAN :
        /\ cr3 = BootMachine.cr3
        /\ mem = BootMachine.mem
        /\ free = Pool(n)
        /\ tlb = << >>
        /\ fatal = "none"
        /\ tokens = << >>
        /\ flushAll = NoFlushAll
        /\ inactive = {}
        /\ pc = "arch_init:12"
        /\ wctx = NoWith
        /\ range = RangeInclusive(U(1), U(0))
        /\ stacks = {}
        /\ boot = Locals(info, n)
        /\ kernel = [interrupts |-> i, nxe |-> x, wp |-> w, done |-> {}]
        /\ last = [op |-> "boot", page |-> Nil, arg |-> Nil, res |-> Nil,
                   prev |-> [op |-> "none", page |-> Nil],
                   prev2 |-> [op |-> "none", page |-> Nil]]

\* the kernel's init runs its next statement
KernelStep ==
    /\ Running
    /\ \E r \in KernelStatement(kernel, pc) :
           /\ kernel' = r.k
           /\ pc' = r.pc
    /\ last' = Did(pc, Nil, Nil, Nil)
    /\ UNCHANGED << cr3, mem, free, tlb, fatal, tokens, flushAll, inactive, wctx,
                    range, stacks, boot >>

NextKernel == KernelStep \/ InitStep

SpecKernel == InitKernel /\ [][NextKernel]_vars

\* the statements of the kernel's init itself; at any other the kernel is in
\* memory::init
ArchInit ==
    {"arch_init:12", "arch_init:16", "arch_init:22", "arch_init:23", "arch_init:25",
     "arch_init:27", "arch_init:31", "arch_init:34", "arch_init:36", "arch_init:38",
     "arch_init:returned"}

TempPageMappedOnlyInside ==
    /\ (pc = "idle" /\ fatal = "none") =>
           /\ TempMapped = None
           /\ Indices(TempPage) \notin DOMAIN tlb
    /\ (pc # "idle" /\ fatal = "none") => IsSome(TempMapped)
    /\ last.op \in {"new", "with:map"} => fatal # AssertUnused

\* with has returned on a table InactivePageTable::new made, the second use
\* of the temporary page on the boot table
TempPageUsedAgain ==
    /\ last.op = "with" /\ pc = "idle" /\ fatal = "none"
    /\ wctx.table \in inactive
    /\ cr3 = BootMachine.cr3
====
